---------------------------- MODULE Spec2Model ----------------------------
(***************************************************************************)
(* Verification model of the documentation search service:                 *)
(*   - the query scoring engine        (src/src/lib/search-engine.ts)      *)
(*   - the inverted-index store        (src/src/lib/search-index.ts)       *)
(*   - the search endpoint             (src/src/app/api/search/route.ts)   *)
(*   - the index-merge pipeline        (src/unnamed/part_001 and           *)
(*                                      src/scripts/combine-search-indexes.ts) *)
(*                                                                         *)
(* Strings are tuples of one-character strings, so that splitting,         *)
(* prefixes, substrings and edit operations are computed and not assumed.  *)
(* Scores are fixed-point numbers in millionths (Micro).                   *)
(***************************************************************************)
EXTENDS Integers, Sequences, FiniteSets, TLC

VARIABLES
    index,       \* search-index.ts: the parsed snapshot held by the store
    query,       \* search(): argument `query`
    optProject,  \* search(): options.project (NoProject = not given)
    optLimit,    \* search(): options.limit   (NoLimit = not given)
    called,      \* TRUE once search() has returned
    result,      \* the list search() returned
    accessed,    \* the store accessors search() evaluated during the call
    raised,      \* TRUE when search() ended in a TypeError and returned nothing
    fs,          \* merge pipeline: the project directories on disk
    listing,     \* merge pipeline: the order readdirSync returns them in
    snapshot,    \* public/combined-searchindex.json (part_001)
    exitStatus,  \* outcome of part_001's main()
    log,         \* console.warn / error lines of part_001's main()
    dataSnapshot,   \* data/combined-searchindex.json (scripts/combine-search-indexes.ts)
    dataExitStatus, \* outcome of scripts/combine-search-indexes.ts main()
    dataLog,        \* console.warn / error lines of that main()
    loadState,   \* search-index.ts module initialisation: "init", "ready" or "failed"
    requests,    \* route.ts GET: the requests in flight, each with its own locals
    searchEvents, \* telemetry.ts: the CircularBuffer of search_performed events
    earlier,     \* what search() returned before the store was loaded again
    ring,        \* telemetry.ts: a CircularBuffer and the items pushed to it
    hook         \* useSearch: the state of one mounted hook and its requests

searchVars == <<index, query, optProject, optLimit, called, result, accessed, raised>>
mergeVars == <<fs, listing, snapshot, exitStatus, log, dataSnapshot, dataExitStatus, dataLog>>
serverVars == <<loadState, requests, searchEvents>>
extraVars == <<earlier, ring, hook>>
vars == <<searchVars, mergeVars, serverVars, extraVars>>

-----------------------------------------------------------------------------
(* Characters and strings                                                  *)

LowerLetters ==
    <<"a","b","c","d","e","f","g","h","i","j","k","l","m",
      "n","o","p","q","r","s","t","u","v","w","x","y","z">>

UpperLetters ==
    <<"A","B","C","D","E","F","G","H","I","J","K","L","M",
      "N","O","P","Q","R","S","T","U","V","W","X","Y","Z">>

Digits == <<"0","1","2","3","4","5","6","7","8","9">>

Range(s) == {s[i] : i \in DOMAIN s}

\* Characters in ascending UTF-16 code-unit order (the order Array.prototype.sort
\* and String comparison use for the characters the model handles).
CodeOrder == <<" ", "-">> \o Digits \o <<":">> \o UpperLetters \o <<"_">> \o LowerLetters

CodeUnit(c) == CHOOSE i \in DOMAIN CodeOrder : CodeOrder[i] = c

\* a < b as JavaScript compares strings (code units, shorter prefix first)
RECURSIVE StrLess(_, _)
StrLess(a, b) ==
    IF b = <<>> THEN FALSE
    ELSE IF a = <<>> THEN TRUE
    ELSE IF Head(a) = Head(b) THEN StrLess(Tail(a), Tail(b))
    ELSE CodeUnit(Head(a)) < CodeUnit(Head(b))

\* String.prototype.toLowerCase on one character
LowerChar(c) ==
    IF c \in Range(UpperLetters)
    THEN LowerLetters[CHOOSE i \in DOMAIN UpperLetters : UpperLetters[i] = c]
    ELSE c

toLowerCase(s) == [i \in DOMAIN s |-> LowerChar(s[i])]

\* \w of a JavaScript regular expression
IsWordChar(c) == c \in Range(LowerLetters) \cup Range(UpperLetters) \cup Range(Digits) \cup {"_"}

startsWith(s, prefix) ==
    /\ Len(prefix) <= Len(s)
    /\ SubSeq(s, 1, Len(prefix)) = prefix

endsWith(s, suffix) ==
    /\ Len(suffix) <= Len(s)
    /\ SubSeq(s, Len(s) - Len(suffix) + 1, Len(s)) = suffix

\* String.prototype.includes
includes(s, part) ==
    \E i \in 0..(Len(s) - Len(part)) : SubSeq(s, i + 1, i + Len(part)) = part

\* Decimal representation of a natural number (template literal `${i}`)
RECURSIVE NumToStr(_)
NumToStr(n) ==
    IF n < 10 THEN <<Digits[n + 1]>>
    ELSE NumToStr(n \div 10) \o <<Digits[(n % 10) + 1]>>

\* query.split(/\W+/): maximal runs of word characters; a separator run at the
\* start or the end of the string yields an empty first or last piece, and the
\* empty string yields one empty piece.
RECURSIVE SplitFrom(_, _, _)
SplitFrom(s, i, cur) ==
    IF i > Len(s) THEN <<cur>>
    ELSE IF IsWordChar(s[i]) THEN SplitFrom(s, i + 1, Append(cur, s[i]))
    ELSE IF i > 1 /\ ~IsWordChar(s[i - 1]) THEN SplitFrom(s, i + 1, cur)
    ELSE <<cur>> \o SplitFrom(s, i + 1, <<>>)

split(s) == SplitFrom(s, 1, <<>>)

\* Characters of a string joined into one atom (used to name words in sets)
RECURSIVE Join(_)
Join(s) == IF s = <<>> THEN "" ELSE Head(s) \o Join(Tail(s))

\* the array holding the elements of s
Array(s) == SubSeq(s, 1, Len(s))

\* the array holding list[i] at place[i]
sortByPlace(list, place) ==
    Array([k \in DOMAIN list |-> list[CHOOSE i \in DOMAIN list : place[i] = k]])

Max(a, b) == IF a >= b THEN a ELSE b
Min(a, b) == IF a <= b THEN a ELSE b

\* Array.prototype.slice(0, end)
slice(s, end) ==
    IF end >= 0 THEN SubSeq(s, 1, Min(end, Len(s)))
    ELSE SubSeq(s, 1, Max(Len(s) + end, 0))

-----------------------------------------------------------------------------
(* search-engine.ts: constants                                             *)

Micro == 1000 * 1000          \* fixed-point unit: 1.0

FUZZY_THRESHOLD == 880000     \* 0.88 in millionths
BODY_WEIGHT == 1
TITLE_WEIGHT == 3
SECTION_WEIGHT == 2
ALL_TOKENS_BONUS == 125       \* 1.25 in hundredths
DEFAULT_LIMIT == 20

STOP_WORDS ==
    {"a", "an", "the", "and", "or", "but", "in", "on", "at", "to", "for",
     "of", "with", "is", "are", "was", "were", "be", "been", "being",
     "have", "has", "had", "do", "does", "did", "will", "would", "could",
     "should", "may", "might", "can", "this", "that", "these", "those",
     "it", "its", "from", "by", "about", "as", "into", "through",
     "during", "before", "after", "above", "below", "up", "down",
     "out", "off", "over", "under", "again", "then", "once", "not",
     "no", "nor", "so", "yet", "both", "either", "each", "all", "more",
     "most", "other", "such", "own", "than", "too", "very", "just",
     "how", "what", "when", "where", "which", "who", "why", "if"}

\* Fixed-point arithmetic within 32-bit integers.
\* n / d in millionths, rounded down
FracToMicro(n, d) ==
    LET r  == n % d
        r1 == (r * 1000) % d
    IN  (n \div d) * Micro + ((r * 1000) \div d) * 1000 + (r1 * 1000) \div d

\* a * b for a, b in millionths, rounded down
MulMicro(a, b) ==
    LET ah == a \div 1000
        al == a % 1000
        bh == b \div 1000
        bl == b % 1000
    IN  ah * bh + (ah * bl + al * bh + (al * bl) \div 1000) \div 1000

-----------------------------------------------------------------------------
(* Tokenisation                                                            *)

\* PorterStemmer.stem of the `natural` package: tokens shorter than 3
\* characters are returned as they are; step 1a maps sses -> ss, ies -> i,
\* ss -> ss and removes another final s.  Steps 1b to 5 leave every word the
\* model queries with (quantum, quantun, quanta, kernel, method, circuit,
\* constructor, __proto__) unchanged, so they are not spelled out.
PorterStem(t) ==
    IF Len(t) < 3 THEN t
    ELSE IF endsWith(t, <<"s","s","e","s">>) THEN SubSeq(t, 1, Len(t) - 2)
    ELSE IF endsWith(t, <<"i","e","s">>) THEN SubSeq(t, 1, Len(t) - 2)
    ELSE IF endsWith(t, <<"s","s">>) THEN t
    ELSE IF endsWith(t, <<"s">>) THEN SubSeq(t, 1, Len(t) - 1)
    ELSE t

\* the filter of tokenise / tokeniseWithRaw
KeepToken(t) == Len(t) >= 2 /\ Join(t) \notin STOP_WORDS

tokeniseWithRaw(q) ==
    LET kept == SelectSeq(split(toLowerCase(q)), KeepToken)
    IN  [i \in DOMAIN kept |-> [raw |-> kept[i], stem |-> PorterStem(kept[i])]]

tokenise(q) ==
    LET kept == SelectSeq(split(toLowerCase(q)), KeepToken)
    IN  [i \in DOMAIN kept |-> PorterStem(kept[i])]

-----------------------------------------------------------------------------
(* Jaro-Winkler similarity (JaroWinklerDistance of the `natural` package), *)
(* computed exactly as a fraction and returned in millionths.              *)

\* the first unmatched position k of s2 inside the window of i holding s1[i], or 0
JaroPartner(s1, s2, i, m2) ==
    LET w == (Max(Len(s1), Len(s2)) \div 2) - 1
        cand == {k \in Max(1, i - w)..Min(i + w, Len(s2)) : k \notin m2 /\ s2[k] = s1[i]}
    IN  IF cand = {} THEN 0 ELSE CHOOSE k \in cand : \A j \in cand : k <= j

\* the matched positions <<of s1, of s2>> after scanning s1 from position i
RECURSIVE JaroMatches(_, _, _, _, _)
JaroMatches(s1, s2, i, m1, m2) ==
    IF i > Len(s1) THEN <<m1, m2>>
    ELSE LET k == JaroPartner(s1, s2, i, m2)
         IN  IF k = 0 THEN JaroMatches(s1, s2, i + 1, m1, m2)
             ELSE JaroMatches(s1, s2, i + 1, m1 \cup {i}, m2 \cup {k})

\* the characters of s at the positions in m, in order
Picked(s, m) == SelectSeq([i \in DOMAIN s |-> IF i \in m THEN s[i] ELSE ""], LAMBDA c : c # "")

\* twice the number of transpositions between the matched characters a and b
Transpositions(a, b) == Cardinality({i \in DOMAIN a : a[i] # b[i]})

\* (m/l1 + m/l2 + (m - t)/m) / 3 for m matches and t2 = 2t, as a fraction
JaroFraction(m, t2, l1, l2) ==
    IF m = 0 THEN <<0, 1>>
    ELSE <<2 * m * m * l2 + 2 * m * m * l1 + (2 * m - t2) * l1 * l2, 6 * m * l1 * l2>>

\* Jaro similarity as a fraction <<numerator, denominator>>
Jaro(s1, s2) ==
    IF Len(s1) = 0 \/ Len(s2) = 0 THEN <<0, 1>>
    ELSE LET mm == JaroMatches(s1, s2, 1, {}, {})
         IN  JaroFraction(Cardinality(mm[1]),
                          Transpositions(Picked(s1, mm[1]), Picked(s2, mm[2])),
                          Len(s1), Len(s2))

\* length of the common prefix, at most 4
RECURSIVE CommonPrefix(_, _, _)
CommonPrefix(s1, s2, l) ==
    IF l < 4 /\ l < Len(s1) /\ l < Len(s2) /\ s1[l + 1] = s2[l + 1]
    THEN CommonPrefix(s1, s2, l + 1)
    ELSE l

\* mutant of Winkler: the prefix bonus is not damped by (1 - j)
Winkler_Undamped(j, l) == FracToMicro(10 * j[1] + l * j[2], 10 * j[2])

\* j + l * 0.1 * (1 - j) for the Jaro fraction j and the prefix length l
Winkler(j, l) == FracToMicro(10 * j[1] + l * (j[2] - j[1]), 10 * j[2])

JaroWinklerDistance(s1, s2) ==
    IF s1 = s2 THEN Micro
    ELSE Winkler(Jaro(s1, s2), CommonPrefix(s1, s2, 0))


-----------------------------------------------------------------------------
(* search-index.ts: the store and its accessors.                           *)
(* terms, titleterms and alltitles are JSON objects: lists of entries in   *)
(* key insertion order (the order Object.keys and Object.entries give).    *)

NoProject == <<"undefined">>  \* options.project not given
NoLimit == 0 - 1              \* options.limit not given

\* the value of key `term` in an inverted index, [] when it is no key
Lookup(entries, term) ==
    IF \E i \in DOMAIN entries : entries[i].term = term
    THEN entries[CHOOSE i \in DOMAIN entries : entries[i].term = term].docs
    ELSE <<>>

\* names of members every object inherits from Object.prototype that a
\* lower-cased token can spell
W_proto == <<"_","_","p","r","o","t","o","_","_">>
W_constructor == <<"c","o","n","s","t","r","u","c","t","o","r">>

\* what these members are: the function Object (its length is 1, and it is
\* no iterable) and the object Object.prototype (it has no length)
ObjectFunction == << <<"function Object() { [native code] }">> >>
ObjectPrototype == << <<"[object Object]">> >>

Undefined == 0 - 1            \* undefined: neither > 0 nor === 0

\* value.length
length(value) == IF value = ObjectPrototype THEN Undefined ELSE Len(value)

\* object[term] ?? [] for an object built by JSON.parse: the value of the
\* own key, else the inherited member of that name, else []
Member(entries, term) ==
    IF \E i \in DOMAIN entries : entries[i].term = term THEN Lookup(entries, term)
    ELSE IF term = W_constructor THEN ObjectFunction
    ELSE IF term = W_proto THEN ObjectPrototype
    ELSE <<>>

getTermDocs(term) == Member(index.terms, term)

getTitleTermDocs(term) == Member(index.titleterms, term)

getAllTitles == index.alltitles

getAllTermKeys == [i \in DOMAIN index.terms |-> index.terms[i].term]

getAllTitleTermKeys == [i \in DOMAIN index.titleterms |-> index.titleterms[i].term]

totalDocs == Len(index.documents)

\* docMap.has(docId)
docMapHas(docId) == \E i \in DOMAIN index.documents : index.documents[i].id = docId

\* docMap.get(docId): new Map(pairs) keeps the last record of an id
docMapGet(docId) ==
    index.documents[CHOOSE i \in DOMAIN index.documents :
        /\ index.documents[i].id = docId
        /\ \A j \in DOMAIN index.documents : index.documents[j].id = docId => j <= i]

-----------------------------------------------------------------------------
(* search-engine.ts: idf and fuzzyMatch                                    *)

\* Math.log(k) in millionths, k = 1 .. 40
LnMicro ==
    <<0, 693147, 1098612, 1386294, 1609438, 1791759, 1945910, 2079442,
      2197225, 2302585, 2397895, 2484907, 2564949, 2639057, 2708050, 2772589,
      2833213, 2890372, 2944439, 2995732, 3044522, 3091042, 3135494, 3178054,
      3218876, 3258097, 3295837, 3332205, 3367296, 3401197, 3433987, 3465736,
      3496508, 3526361, 3555348, 3583519, 3610918, 3637586, 3663562, 3688879>>

\* Math.log(n) in millionths behind the table, for the document counts of
\* the largest snapshot
LnMicroBeyond(n) ==
    CASE n = 501 -> 6216606
      [] n = 502 -> 6218600
      [] n = 503 -> 6220590

Ln(n) == IF n <= Len(LnMicro) THEN LnMicro[n] ELSE LnMicroBeyond(n)

\* Math.log((totalDocs + 1) / (docCount + 1)) + 1
idf(docCount) == Ln(totalDocs + 1) - Ln(docCount + 1) + Micro

NoMatch == [key |-> <<>>, similarity |-> 0]     \* fuzzyMatch returning null

\* mutant of fuzzyMatch: the first key that clears the threshold, not the best
fuzzyMatch_FirstCandidate(token, keys) ==
    LET ok == {i \in DOMAIN keys :
                 /\ Len(keys[i]) - Len(token) <= 4 /\ Len(token) - Len(keys[i]) <= 4
                 /\ JaroWinklerDistance(token, keys[i]) >= FUZZY_THRESHOLD}
    IN  IF ok = {} THEN [key |-> <<>>, similarity |-> 0]
        ELSE LET i == CHOOSE i \in ok : \A j \in ok : i <= j
             IN  [key |-> keys[i], similarity |-> JaroWinklerDistance(token, keys[i])]

\* the best match after a key of similarity sim has been seen
fuzzyBest(best, key, sim) ==
    IF sim >= FUZZY_THRESHOLD /\ (best = NoMatch \/ sim > best.similarity)
    THEN [key |-> key, similarity |-> sim]
    ELSE best

\* the loop of fuzzyMatch from key i on
RECURSIVE fuzzyScan(_, _, _, _)
fuzzyScan(token, keys, i, best) ==
    IF i > Len(keys) THEN best
    ELSE IF Len(keys[i]) - Len(token) > 4 \/ Len(token) - Len(keys[i]) > 4
    THEN fuzzyScan(token, keys, i + 1, best)
    ELSE fuzzyScan(token, keys, i + 1,
                   fuzzyBest(best, keys[i], JaroWinklerDistance(token, keys[i])))

fuzzyMatch(token, keys) == fuzzyScan(token, keys, 1, NoMatch)

-----------------------------------------------------------------------------
(* search-engine.ts: search                                                *)

\* Append x to the list s unless it is there (Set.prototype.add)
SetAdd(s, x) == IF x \in Range(s) THEN s ELSE Append(s, x)

\* the project filter of addScore and of the section loop
InScope(docId, project) ==
    project = NoProject \/ startsWith(docId, project \o <<":">>)

\* mutant of addScore: the project filter is missing
addScore_NoProjectFilter(acc, docId, weight, stem, project) ==
    IF \E i \in DOMAIN acc : acc[i].docId = docId
    THEN [i \in DOMAIN acc |->
            IF acc[i].docId = docId
            THEN [acc[i] EXCEPT !.score = @ + weight,
                                !.matched = SetAdd(@, stem),
                                !.tokenMatch = SetAdd(@, stem)]
            ELSE acc[i]]
    ELSE Append(acc, [docId |-> docId, score |-> weight,
                      matched |-> <<stem>>, tokenMatch |-> <<stem>>,
                      sections |-> <<>>])

\* addScore: acc is the list of the entries of `scores`, `matchedMap` and
\* `tokenMatchSets` (always set together) in Map insertion order.
addScore(acc, docId, weight, stem, project) ==
    IF ~InScope(docId, project) THEN acc
    ELSE IF \E i \in DOMAIN acc : acc[i].docId = docId
    THEN [i \in DOMAIN acc |->
            IF acc[i].docId = docId
            THEN [acc[i] EXCEPT !.score = @ + weight,
                                !.matched = SetAdd(@, stem),
                                !.tokenMatch = SetAdd(@, stem)]
            ELSE acc[i]]
    ELSE Append(acc, [docId |-> docId, score |-> weight,
                      matched |-> <<stem>>, tokenMatch |-> <<stem>>,
                      sections |-> <<>>])

\* for (const docId of docs) addScore(docId, w, stem)
\* (the loop is run over the first half of docs, then over the second half
\* from the scores the first half has left)
RECURSIVE addScoreAll(_, _, _, _, _)
addScoreAll(acc, docs, w, stem, project) ==
    IF docs = <<>> THEN acc
    ELSE IF Len(docs) = 1 THEN addScore(acc, docs[1], w, stem, project)
    ELSE LET first == addScoreAll(acc, SubSeq(docs, 1, Len(docs) \div 2), w, stem, project)
         IN  IF first = <<>>
             THEN addScoreAll(<<>>, SubSeq(docs, Len(docs) \div 2 + 1, Len(docs)),
                              w, stem, project)
             ELSE addScoreAll(first, SubSeq(docs, Len(docs) \div 2 + 1, Len(docs)),
                              w, stem, project)

\* the scores of a call that has thrown "... is not iterable"
TypeError ==
    <<[docId |-> <<"TypeError">>, score |-> 0, matched |-> <<>>, tokenMatch |-> <<>>,
       sections |-> <<>>]>>

\* an exact lookup of the token loop: docs scored with weight * idf; the
\* for-of loop throws when docs is no iterable
scoreExact(acc, docs, weight, stem, project) ==
    IF acc = TypeError THEN TypeError
    ELSE IF length(docs) > 0
    THEN (IF docs = ObjectFunction THEN TypeError
          ELSE addScoreAll(acc, docs, weight * idf(length(docs)), stem, project))
    ELSE acc

\* a fuzzy lookup of the token loop: the docs of the matched key scored with
\* weight * idf * similarity
scoreFuzzy(acc, match, docs, weight, stem, project) ==
    IF match # NoMatch
    THEN addScoreAll(acc, docs, MulMicro(weight * idf(Len(docs)), match.similarity),
                     stem, project)
    ELSE acc

\* the fuzzy fallback of the token loop
scoreFuzzyFallback(acc, fuzzyTitle, fuzzyBody, stem, project) ==
    scoreFuzzy(scoreFuzzy(acc, fuzzyTitle, getTitleTermDocs(fuzzyTitle.key),
                          TITLE_WEIGHT, stem, project),
               fuzzyBody, getTermDocs(fuzzyBody.key), BODY_WEIGHT, stem, project)

\* one iteration of the token loop, given the two exact lookups
scoreLookups(acc, exactTitleDocs, exactBodyDocs, stem, project) ==
    IF length(exactTitleDocs) = 0 /\ length(exactBodyDocs) = 0
    THEN scoreFuzzyFallback(acc, fuzzyMatch(stem, getAllTitleTermKeys),
                            fuzzyMatch(stem, getAllTermKeys), stem, project)
    ELSE scoreExact(scoreExact(acc, exactTitleDocs, TITLE_WEIGHT, stem, project),
                    exactBodyDocs, BODY_WEIGHT, stem, project)

\* one iteration of the token loop
scoreToken(acc, stem, project) ==
    scoreLookups(acc, getTitleTermDocs(stem), getTermDocs(stem), stem, project)

RECURSIVE scoreTokens(_, _, _)
scoreTokens(acc, tokens, project) ==
    IF tokens = <<>> \/ acc = TypeError THEN acc
    ELSE scoreTokens(scoreToken(acc, Head(tokens).stem, project), Tail(tokens), project)

\* the stems of the tokens a section title contains, one per token, in token order
sectionHits(sectionTitle, tokens) ==
    LET titleLower == toLowerCase(sectionTitle)
        stems == [i \in DOMAIN tokens |-> tokens[i].stem]
    IN  SelectSeq(stems, LAMBDA st : includes(titleLower, st))

\* the inner loop over the entries of one section title
RECURSIVE sectionEntries(_, _, _, _, _, _)
sectionEntries(acc, sectionTitle, entries, bonus, stem, project) ==
    IF entries = <<>> THEN acc
    ELSE LET e == Head(entries)
             a1 == addScore(acc, e.docId, bonus, stem, project)
             a2 == [i \in DOMAIN a1 |->
                      IF a1[i].docId = e.docId
                      THEN [a1[i] EXCEPT !.sections =
                               Append(@, [title |-> sectionTitle, anchor |-> e.anchor])]
                      ELSE a1[i]]
         IN  sectionEntries(IF InScope(e.docId, project) THEN a2 ELSE acc,
                            sectionTitle, Tail(entries), bonus, stem, project)

\* the section title bonus loop over Object.entries(allTitles)
RECURSIVE sectionBonus(_, _, _, _)
sectionBonus(acc, titles, tokens, project) ==
    IF titles = <<>> THEN acc
    ELSE LET hits == sectionHits(Head(titles).title, tokens)
             matchCount == Len(hits)
         IN  IF matchCount = 0 THEN sectionBonus(acc, Tail(titles), tokens, project)
             ELSE sectionBonus(
                      sectionEntries(acc, Head(titles).title, Head(titles).entries,
                                     SECTION_WEIGHT * matchCount * Micro, hits[1], project),
                      Tail(titles), tokens, project)

\* score * 1.25, rounded down
TimesBonus(score) ==
    (score \div 100) * ALL_TOKENS_BONUS + ((score % 100) * ALL_TOKENS_BONUS) \div 100

\* mutant of allTokensBonus: queries of one stem get the bonus too
allTokensBonus_AnySize(acc, uniqueStems) ==
    [i \in DOMAIN acc |->
        IF Len(acc[i].tokenMatch) = Cardinality(uniqueStems)
        THEN [acc[i] EXCEPT !.score = TimesBonus(@)]
        ELSE acc[i]]

\* the all-tokens bonus loop
allTokensBonus(acc, uniqueStems) ==
    [i \in DOMAIN acc |->
        IF Cardinality(uniqueStems) > 1
           /\ Len(acc[i].tokenMatch) = Cardinality(uniqueStems)
        THEN [acc[i] EXCEPT !.score = TimesBonus(@)]
        ELSE acc[i]]

\* a.title.localeCompare(b.title) < 0, for titles of lower-case letters
localeLess(a, b) == StrLess(a, b)

\* mutant of resultBefore: equal scores are left in insertion order
resultBefore_ScoreOnly(a, b) == a.score > b.score

\* the comparator of results.sort: TRUE when a must come before b
resultBefore(a, b) ==
    IF b.score # a.score THEN a.score > b.score
    ELSE localeLess(a.title, b.title)

\* the place results.sort gives entry i of list: Array.prototype.sort is
\* stable, so i comes behind every entry the comparator puts before it and
\* behind the earlier entries the comparator does not put after it
sortedPlace(list, i) ==
    Cardinality({j \in DOMAIN list :
                    \/ resultBefore(list[j], list[i])
                    \/ (j < i /\ ~resultBefore(list[i], list[j]))}) + 1

sortResults(list) ==
    sortByPlace(list, Array([i \in DOMAIN list |-> sortedPlace(list, i)]))

\* the result list before sorting: one SearchResult per scored document that
\* docMap knows
buildResults(acc) ==
    LET known == SelectSeq(acc, LAMBDA e : docMapHas(e.docId))
    IN  Array([i \in DOMAIN known |->
                 [docId |-> known[i].docId,
                  project |-> docMapGet(known[i].docId).project,
                  title |-> docMapGet(known[i].docId).title,
                  score |-> known[i].score,
                  matchedTerms |-> known[i].matched,
                  sections |-> known[i].sections]])

\* mutant of newMap: the maps live at module level and keep the entries the
\* handled requests left in them
newMap_ModuleLevel ==
    IF \E r \in DOMAIN requests : Len(requests[r].response.results) > 0
    THEN LET left == requests[CHOOSE r \in DOMAIN requests :
                                 Len(requests[r].response.results) > 0].response.results
         IN  [i \in DOMAIN left |->
                [docId |-> left[i].docId, score |-> left[i].score,
                 matched |-> left[i].matchedTerms, tokenMatch |-> left[i].matchedTerms,
                 sections |-> left[i].sections]]
    ELSE <<>>

\* new Map(): `scores`, `matchedMap`, `tokenMatchSets` and `sectionBonus` are
\* locals of search, created empty by every call
newMap == <<>>

\* the section loop behind the token loop, unless that has thrown
afterTokens(acc, tokens, project) ==
    IF acc = TypeError THEN TypeError
    ELSE sectionBonus(acc, getAllTitles, tokens, project)

\* the scores when the token loop and the section loop are through
scoresOf(tokens, project) ==
    afterTokens(scoreTokens(newMap, tokens, project), tokens, project)

\* the all-tokens bonus, the result list and its sort
rankScores(tokens, scores) ==
    sortResults(buildResults(
        allTokensBonus(scores, {tokens[i].stem : i \in DOMAIN tokens})))

\* the full ranking: every scored document, sorted
ranking(tokens, project) == rankScores(tokens, scoresOf(tokens, project))

\* idf is called for the stem: a lookup, exact or fuzzy, has found a key
idfCalled(st) ==
    \/ length(getTitleTermDocs(st)) > 0
    \/ length(getTermDocs(st)) > 0
    \/ /\ length(getTitleTermDocs(st)) = 0
       /\ length(getTermDocs(st)) = 0
       /\ \/ fuzzyMatch(st, getAllTitleTermKeys) # NoMatch
          \/ fuzzyMatch(st, getAllTermKeys) # NoMatch

\* the accessors of the store a call with these tokens evaluates
readsOf(tokens, scores) ==
    {"getAllTermKeys", "getAllTitleTermKeys", "getAllTitles"}
        \cup (IF Len(tokens) > 0 THEN {"getTitleTermDocs", "getTermDocs"} ELSE {})
        \cup (IF \E i \in DOMAIN tokens : idfCalled(tokens[i].stem) THEN {"totalDocs"} ELSE {})
        \cup (IF Len(scores) > 0 THEN {"docMap"} ELSE {})

\* what a call with at least one token returns and reads
searchTokens(tokens, scores, lim) ==
    IF scores = TypeError
    THEN [list |-> <<>>, raised |-> TRUE,
          reads |-> {"getAllTermKeys", "getAllTitleTermKeys", "getTitleTermDocs",
                     "getTermDocs", "totalDocs"}]
    ELSE [list |-> slice(rankScores(tokens, scores), lim), raised |-> FALSE,
          reads |-> readsOf(tokens, scores)]

\* mutant of search: the key lists are fetched before the empty-token return
search_KeysBeforeReturn(q, project, limit) ==
    LET tokens == tokeniseWithRaw(q)
        lim == IF limit = NoLimit THEN DEFAULT_LIMIT ELSE limit
    IN  IF Len(tokens) = 0
        THEN [list |-> <<>>, raised |-> FALSE,
              reads |-> {"getAllTermKeys", "getAllTitleTermKeys"}]
        ELSE searchTokens(tokens, scoresOf(tokens, project), lim)

\* search(query, {project, limit}): the list returned and the accessors read
search(q, project, limit) ==
    LET tokens == tokeniseWithRaw(q)
        lim == IF limit = NoLimit THEN DEFAULT_LIMIT ELSE limit
    IN  IF Len(tokens) = 0 THEN [list |-> <<>>, raised |-> FALSE, reads |-> {}]
        ELSE searchTokens(tokens, scoresOf(tokens, project), lim)

-----------------------------------------------------------------------------
(* Inputs of the search model: snapshots, queries, scopes, limits          *)

MaxLimit == 2                 \* explicit limits are 0 .. MaxLimit

W_quantum == <<"q","u","a","n","t","u","m">>
W_quantun == <<"q","u","a","n","t","u","n">>
W_quanta  == <<"q","u","a","n","t","a">>
W_kernel  == <<"k","e","r","n","e","l">>
W_method  == <<"m","e","t","h","o","d">>
W_alpha   == <<"a","l","p","h","a">>
W_beta    == <<"b","e","t","a">>
W_gamma   == <<"g","a","m","m","a">>
P_pa      == <<"p","a">>
P_pb      == <<"p","b">>

H_QuantumKernel == <<"Q","u","a","n","t","u","m"," ","K","e","r","n","e","l">>
H_Methods == <<"M","e","t","h","o","d","s">>

NullAnchor == <<"null">>      \* anchor: null

\* `${projectId}:${i}`
DocId(projectId, i) == projectId \o <<":">> \o NumToStr(i)

Doc(projectId, i, title) ==
    [id |-> DocId(projectId, i), project |-> projectId, title |-> title]

\* Array.prototype.sort() of a list of strings (code-unit order)
stringPlace(list, i) ==
    Cardinality({j \in DOMAIN list :
                    StrLess(list[j], list[i]) \/ (j < i /\ list[j] = list[i])}) + 1

sort(list) ==
    sortByPlace(list, Array([i \in DOMAIN list |-> stringPlace(list, i)]))

SmallDocs ==
    <<Doc(P_pa, 0, W_alpha), Doc(P_pa, 1, W_beta), Doc(P_pb, 0, W_alpha)>>

KeyOrder == <<W_quanta, W_quantum, W_kernel, W_method>>

\* postings a small snapshot may hold: <<term, document>>
TitlePostings ==
    {<<W_quantum, DocId(P_pa, 0)>>, <<W_kernel, DocId(P_pa, 1)>>, <<W_kernel, DocId(P_pb, 0)>>}

BodyPostings ==
    {<<W_quantum, DocId(P_pb, 0)>>, <<W_quanta, DocId(P_pa, 1)>>, <<W_method, DocId(P_pa, 0)>>}

Headings ==
    <<[title |-> H_QuantumKernel,
       entries |-> <<[docId |-> DocId(P_pa, 1), anchor |-> <<"q","k">>]>>],
      [title |-> H_Methods,
       entries |-> <<[docId |-> DocId(P_pa, 0), anchor |-> NullAnchor],
                     [docId |-> DocId(P_pb, 0), anchor |-> <<"m">>]>>]>>

\* the inverted index holding the postings ps: keys in KeyOrder, ids sorted
Inverted(docs, ps) ==
    LET ids == sort([i \in DOMAIN docs |-> docs[i].id])
        keys == SelectSeq(KeyOrder, LAMBDA k : \E d \in Range(ids) : <<k, d>> \in ps)
    IN  [i \in DOMAIN keys |->
            [term |-> keys[i],
             docs |-> SelectSeq(ids, LAMBDA d : <<keys[i], d>> \in ps)]]

Snapshot(docs, tps, bps, hs) ==
    [version |-> "1",
     projects |-> <<[id |-> P_pa], [id |-> P_pb]>>,
     documents |-> docs,
     terms |-> Inverted(docs, bps),
     titleterms |-> Inverted(docs, tps),
     alltitles |-> SelectSeq(Headings, LAMBDA h : h.title \in hs)]

SmallSnapshots ==
    {Snapshot(SmallDocs, tps, bps, hs) :
        tps \in SUBSET TitlePostings, bps \in SUBSET BodyPostings,
        hs \in SUBSET {H_QuantumKernel, H_Methods}}

\* a snapshot with more scored documents than DEFAULT_LIMIT: every document
\* of project pb and document pa:0 hold the body term kernel
BigCount == DEFAULT_LIMIT + 1

BigTitle(i) == IF i % 3 = 0 THEN W_alpha ELSE IF i % 3 = 1 THEN W_beta ELSE W_gamma

BigDocs ==
    <<Doc(P_pa, 0, W_gamma)>> \o [i \in 1..BigCount |-> Doc(P_pb, i - 1, BigTitle(i))]

BigSnapshot ==
    Snapshot(BigDocs, {<<W_quantum, DocId(P_pa, 0)>>},
             {<<W_kernel, BigDocs[i].id>> : i \in DOMAIN BigDocs}, {H_Methods})

W_subquantum == <<"s","u","b">> \o W_quantum
H_Subquantum == <<"S","u","b","q","u","a","n","t","u","m">>
H_Kernels == <<"K","e","r","n","e","l","s">>
H_SubquantumKernel == H_Subquantum \o <<" ","K","e","r","n","e","l">>

\* a snapshot whose document pb:0 has three section headings: the title
\* terms hold the stems of the headings' words, the body term quantum is
\* in pb:0 and the title term quantum in pa:0 alone
SectionSnapshot ==
    [version |-> "1",
     projects |-> <<[id |-> P_pa], [id |-> P_pb]>>,
     documents |-> SmallDocs,
     terms |-> <<[term |-> W_quantum, docs |-> <<DocId(P_pb, 0)>>]>>,
     titleterms |-> <<[term |-> W_quantum, docs |-> <<DocId(P_pa, 0)>>],
                      [term |-> W_kernel, docs |-> <<DocId(P_pb, 0)>>],
                      [term |-> W_subquantum, docs |-> <<DocId(P_pb, 0)>>]>>,
     alltitles |-> <<[title |-> H_Subquantum,
                      entries |-> <<[docId |-> DocId(P_pb, 0), anchor |-> <<"s">>]>>],
                     [title |-> H_Kernels,
                      entries |-> <<[docId |-> DocId(P_pb, 0), anchor |-> <<"k">>]>>],
                     [title |-> H_SubquantumKernel,
                      entries |-> <<[docId |-> DocId(P_pb, 0), anchor |-> <<"s","k">>]>>]>>]

\* a snapshot merged from a Sphinx index of project pa whose term quantum
\* lists ten document numbers while the project has two files: the posting
\* list is longer than the document list
DanglingCount == 10

DanglingSnapshot ==
    [version |-> "1",
     projects |-> <<[id |-> P_pa], [id |-> P_pb]>>,
     documents |-> SmallDocs,
     terms |-> <<[term |-> W_quantum,
                  docs |-> [i \in 1..DanglingCount |-> DocId(P_pa, i - 1)]]>>,
     titleterms |-> <<[term |-> W_kernel, docs |-> <<DocId(P_pa, 1)>>]>>,
     alltitles |-> <<>>]

Snapshots == SmallSnapshots \cup {BigSnapshot, SectionSnapshot, DanglingSnapshot}

Queries ==
    {<<>>,
     <<"t","h","e"," ","a","n","d"," ","a">>,
     <<"q",","," ","k">>,
     W_quantum,
     W_quantun,
     W_kernel,
     <<"q","u","a","n","t","u","m"," ","Q","u","a","n","t","u","m">>,
     <<"Q","u","a","n","t","u","m"," ","k","e","r","n","e","l">>,
     <<"K","e","r","n","e","l"," ","m","e","t","h","o","d","s","!">>}

Projects == {NoProject, P_pa, P_pb}

Limits == {NoLimit} \cup (0..MaxLimit)

Idle == "idle"

SearchInit ==
    /\ index \in Snapshots
    /\ query \in Queries
    /\ optProject \in Projects
    /\ optLimit \in Limits
    /\ called = FALSE
    /\ result = <<>>
    /\ accessed = {}
    /\ raised = FALSE
    /\ fs = Idle /\ listing = Idle /\ snapshot = Idle /\ exitStatus = Idle /\ log = Idle
    /\ dataSnapshot = Idle /\ dataExitStatus = Idle /\ dataLog = Idle
    /\ loadState = Idle /\ requests = Idle /\ searchEvents = Idle
    /\ earlier = Idle /\ ring = Idle /\ hook = Idle

\* one call search(query, {project: optProject, limit: optLimit})
Search ==
    /\ called = FALSE
    /\ called' = TRUE
    /\ \E r \in {search(query, optProject, optLimit)} :
          result' = r.list /\ accessed' = r.reads /\ raised' = r.raised
    /\ UNCHANGED <<index, query, optProject, optLimit, mergeVars, serverVars, extraVars>>

Next == Search

Init == SearchInit

Spec == Init /\ [][Next]_vars

-----------------------------------------------------------------------------
(* Properties of search                                                    *)

\* the document ids of a result list
IdsOf(list) == {list[i].docId : i \in DOMAIN list}

\* search(query, {}) with a limit no smaller than the number of documents:
\* the whole unscoped ranking
UnscopedRanking == search(query, NoProject, totalDocs).list

\* C1 (as stated): a scoped search returns only documents whose id starts with
\* "p:", and every document it returns is also returned by search(q, {}) called
\* with the same limit.
C1_SubsetSameLimit ==
    (called /\ optProject # NoProject) =>
        /\ \A i \in DOMAIN result : startsWith(result[i].docId, optProject \o <<":">>)
        /\ IdsOf(result) \subseteq IdsOf(search(query, NoProject, optLimit).list)

\* C1 (amended): a scoped search returns only documents whose id starts with
\* "p:", and every document it returns is returned by search(q, {}) when that
\* call's limit is at least the number of documents it scores; it is the first
\* `limit` entries of that unscoped ranking restricted to the project.
C1_SubsetOfRanking ==
    (called /\ optProject # NoProject) =>
        /\ \A i \in DOMAIN result : startsWith(result[i].docId, optProject \o <<":">>)
        /\ IdsOf(result) \subseteq IdsOf(UnscopedRanking)
        /\ LET inProject == SelectSeq(UnscopedRanking,
                                LAMBDA r : startsWith(r.docId, optProject \o <<":">>))
               lim == IF optLimit = NoLimit THEN DEFAULT_LIMIT ELSE optLimit
           IN  [i \in DOMAIN result |-> result[i].docId]
                   = [i \in 1..Min(lim, Len(inProject)) |-> inProject[i].docId]

\* C1 witness: a scoped call that returned documents while the unscoped
\* ranking also holds documents of another project, and the limit cut it
C1_Witness ==
    /\ called /\ optProject # NoProject
    /\ result # <<>>
    /\ \E i \in DOMAIN UnscopedRanking :
           ~startsWith(UnscopedRanking[i].docId, optProject \o <<":">>)
    /\ Len(search(query, optProject, totalDocs).list) > Len(result)

\* the pieces of the query are all shorter than 2 characters or stop words
AllDropped(q) ==
    \A w \in Range(split(toLowerCase(q))) : Len(w) < 2 \/ Join(w) \in STOP_WORDS

\* C2: for a query whose tokens are all shorter than 2 characters or stop
\* words, tokenise returns the empty list and search returns the empty list
\* without having read any accessor of the store.
C2_EmptyQueryShortCircuits ==
    (called /\ AllDropped(query)) =>
        /\ tokenise(query) = <<>>
        /\ result = <<>>
        /\ accessed = {}

\* C2 witness: the all-stop-word query on a snapshot that indexes terms
C2_Witness ==
    /\ called
    /\ query = <<"t","h","e"," ","a","n","d"," ","a">>
    /\ Len(index.terms) > 0 /\ Len(index.titleterms) > 0 /\ Len(index.alltitles) > 0
    /\ result = <<>>

\* C3: the list has at most `limit` entries (20 without a limit), holds each
\* document once, is ordered by score descending and by title ascending among
\* equal scores, and is the first `limit` entries of the full ranking.
C3_RankedTopLimit ==
    called =>
        LET lim == IF optLimit = NoLimit THEN DEFAULT_LIMIT ELSE optLimit
            full == search(query, optProject, totalDocs).list
        IN  /\ Len(result) <= lim
            /\ \A i, j \in DOMAIN result : result[i].docId = result[j].docId => i = j
            /\ \A i, j \in DOMAIN result :
                   i < j => \/ result[i].score > result[j].score
                            \/ /\ result[i].score = result[j].score
                               /\ ~StrLess(result[j].title, result[i].title)
            /\ Len(result) = Min(lim, Len(full))
            /\ result = SubSeq(full, 1, Len(result))

\* C3 witness: no limit given, more than 20 scored documents, 20 returned,
\* among them two of equal score and different titles
C3_Witness ==
    /\ called /\ optLimit = NoLimit
    /\ Len(search(query, optProject, totalDocs).list) > DEFAULT_LIMIT
    /\ Len(result) = DEFAULT_LIMIT
    /\ \E i, j \in DOMAIN result :
           result[i].score = result[j].score /\ result[i].title # result[j].title

\* a differs from b by one substituted, one missing or one extra character
OneCharTypo(a, b) ==
    \/ /\ Len(a) = Len(b)
       /\ Cardinality({i \in DOMAIN a : a[i] # b[i]}) = 1
    \/ /\ Len(a) + 1 = Len(b)
       /\ \E k \in DOMAIN b : a = SubSeq(b, 1, k - 1) \o SubSeq(b, k + 1, Len(b))
    \/ /\ Len(b) + 1 = Len(a)
       /\ \E k \in DOMAIN a : b = SubSeq(a, 1, k - 1) \o SubSeq(a, k + 1, Len(a))

AllKeys == Range(getAllTermKeys) \cup Range(getAllTitleTermKeys)

\* the call is search(s') for a one-character typo s' of the indexed stem s,
\* s' itself not indexed and similar enough to s
TypoCallOf(s) ==
    /\ called /\ optProject = NoProject /\ optLimit = NoLimit
    /\ Len(tokenise(query)) = 1
    /\ s \in AllKeys
    /\ tokenise(query)[1] \notin AllKeys
    /\ OneCharTypo(tokenise(query)[1], s)
    /\ JaroWinklerDistance(tokenise(query)[1], s) >= FUZZY_THRESHOLD

ResolvesTo(keys, t, s) ==
    \A i \in DOMAIN keys :
        (/\ keys[i] # s
         /\ Len(keys[i]) - Len(t) <= 4 /\ Len(t) - Len(keys[i]) <= 4
         /\ JaroWinklerDistance(t, keys[i]) >= FUZZY_THRESHOLD)
        => \E j \in DOMAIN keys :
               /\ keys[j] = s
               /\ \/ JaroWinklerDistance(t, s) > JaroWinklerDistance(t, keys[i])
                  \/ /\ JaroWinklerDistance(t, s) = JaroWinklerDistance(t, keys[i])
                     /\ j < i

\* no section title contains the stem
NoHeadingHas(st) ==
    \A i \in DOMAIN index.alltitles : ~includes(toLowerCase(index.alltitles[i].title), st)

StemsOf(tokens) == {tokens[i].stem : i \in DOMAIN tokens}

\* the stems of the tokens of the query
QueryStems == StemsOf(tokeniseWithRaw(query))

\* the score the token loop and the section loop have accumulated for docId
Accumulated(scores, docId) ==
    scores[CHOOSE i \in DOMAIN scores : scores[i].docId = docId].score

\* every entry of list has the score `scores` holds for its document
ScoresKept(list, scores) ==
    \A i \in DOMAIN list : list[i].score = Accumulated(scores, list[i].docId)

\* C15: when the tokens of the query have one distinct stem (one word, or a
\* word repeated), the score of every result is the sum of the weights the
\* token loop and the section loop added for it: nothing is multiplied by 1.25.
C15_OneStemNoBonus ==
    called /\ Cardinality(QueryStems) = 1 =>
        ScoresKept(result, scoresOf(tokeniseWithRaw(query), optProject))

\* a query that repeats one word has returned documents
C15_Witness ==
    /\ called
    /\ Len(tokeniseWithRaw(query)) = 2
    /\ Cardinality(QueryStems) = 1
    /\ Len(result) > 1


\* the place of document docId in the returned list, 0 when it is not in it
PlaceOf(list, docId) ==
    IF \E i \in DOMAIN list : list[i].docId = docId
    THEN CHOOSE i \in DOMAIN list : list[i].docId = docId
    ELSE 0

\* document b is listed under term t in the body-term index only
BodyOnly(b, t) == b \in Range(getTermDocs(t)) /\ b \notin Range(getTitleTermDocs(t))

\* C16: for a query of one term t, a document that is the only one listed
\* under t in the title-term index is returned strictly before every
\* document of the same scope listed under t in the body-term index only,
\* whatever the section-title table holds.
C16_TitleBeforeBody ==
    called /\ Len(tokeniseWithRaw(query)) = 1 /\ Len(getTitleTermDocs(CHOOSE t \in QueryStems : TRUE)) = 1 =>
        \A b \in {result[i].docId : i \in DOMAIN result} :
            /\ BodyOnly(b, CHOOSE t \in QueryStems : TRUE)
            /\ InScope(getTitleTermDocs(CHOOSE t \in QueryStems : TRUE)[1], optProject)
            => /\ PlaceOf(result, getTitleTermDocs(CHOOSE t \in QueryStems : TRUE)[1]) > 0
               /\ PlaceOf(result, getTitleTermDocs(CHOOSE t \in QueryStems : TRUE)[1])
                    < PlaceOf(result, b)


\* the weight a lookup adds to each document of docs
Weights(scores) == [i \in DOMAIN scores |-> scores[i].score]

\* the fuzzy match m on a key with the posting list docs adds to no document
\* more than an exact match on a key with that posting list
WeightsWithin(fuzzy, exact) ==
    /\ Len(fuzzy) = Len(exact)
    /\ \A i \in DOMAIN fuzzy : fuzzy[i] <= exact[i]

FuzzyWithin(m, docs, weight, stem) ==
    m # NoMatch =>
       /\ m.similarity >= FUZZY_THRESHOLD
       /\ m.similarity <= Micro
       /\ WeightsWithin(Weights(scoreFuzzy(<<>>, m, docs, weight, stem, NoProject)),
                        Weights(scoreExact(<<>>, docs, weight, stem, NoProject)))

\* the same, for the match m found among the keys of the inverted index entries
FuzzyLookupWithin(m, entries, weight, stem) ==
    FuzzyWithin(m, Lookup(entries, m.key), weight, stem)

FuzzyTitle(st) == fuzzyMatch(st, getAllTitleTermKeys)

FuzzyBody(st) == fuzzyMatch(st, getAllTermKeys)

PostingsWithinDocs ==
    /\ \A i \in DOMAIN index.terms : Len(index.terms[i].docs) <= totalDocs
    /\ \A i \in DOMAIN index.titleterms : Len(index.titleterms[i].docs) <= totalDocs

Contribution(h) == Len(sectionHits(h, tokeniseWithRaw(query)))

\* the headings of the store that contain a query token and list docId
MatchedHeadings(docId) ==
    {getAllTitles[k].title : k \in
        {k \in DOMAIN getAllTitles :
            /\ Contribution(getAllTitles[k].title) > 0
            /\ \E e \in DOMAIN getAllTitles[k].entries :
                  getAllTitles[k].entries[e].docId = docId}}

\* C18: the sections of every result are all the headings matched for its
\* document, in descending order of contribution (a heading that contains
\* more query tokens stands before one that contains fewer), so that the
\* first two are two of the highest contribution.
C18_SectionsByContribution ==
    called =>
        \A i \in DOMAIN result :
            /\ {result[i].sections[a].title : a \in DOMAIN result[i].sections}
                 = MatchedHeadings(result[i].docId)
            /\ \A a, b \in DOMAIN result[i].sections :
                  a < b => Contribution(result[i].sections[a].title)
                             >= Contribution(result[i].sections[b].title)

\* a heading that lists docId contains the stem st
HeadingHas(st, docId) ==
    \E k \in DOMAIN getAllTitles :
        /\ includes(toLowerCase(getAllTitles[k].title), st)
        /\ \E e \in DOMAIN getAllTitles[k].entries :
              getAllTitles[k].entries[e].docId = docId

\* the stem st has a title-term, body-term or fuzzy hit on docId, the fuzzy
\* matches of st being ft (title keys) and fb (body keys)
TermHit(st, docId, ft, fb) ==
    \/ docId \in Range(getTitleTermDocs(st))
    \/ docId \in Range(getTermDocs(st))
    \/ /\ Len(getTitleTermDocs(st)) = 0 /\ Len(getTermDocs(st)) = 0
       /\ \/ docId \in Range(getTitleTermDocs(ft.key))
          \/ docId \in Range(getTermDocs(fb.key))

\* every stem of stems matched docId
AllMatched(stems, docId) ==
    \A st \in stems :
        \/ TermHit(st, docId, FuzzyTitle(st), FuzzyBody(st))
        \/ HeadingHas(st, docId)

\* every entry of list has the score `scores` holds for its document, times
\* 1.25 when every stem matched the document and as it is otherwise
BonusIffAllMatched(list, scores, stems) ==
    \A i \in DOMAIN list :
        list[i].score =
            IF AllMatched(stems, list[i].docId)
            THEN TimesBonus(Accumulated(scores, list[i].docId))
            ELSE Accumulated(scores, list[i].docId)

\* C22: when the tokens of the query have two or more distinct stems, the
\* score of a result is 1.25 times the sum of the weights added for its
\* document if every distinct stem matched the document (a title-term,
\* body-term or fuzzy hit, or a heading of the document that contains the
\* stem), and that sum unchanged otherwise.
C22_BonusIffAllStemsMatched ==
    called /\ Cardinality(QueryStems) >= 2 =>
        BonusIffAllMatched(result, scoresOf(tokeniseWithRaw(query), optProject), QueryStems)

\* the query q with the word of its token i written once more behind it
Repeated(q, i) == q \o <<" ">> \o tokeniseWithRaw(q)[i].raw

\* C23: a query that repeats one of its words gets the list the query gets:
\* the same documents in the same order with the same scores.
C23_RepeatedWordSameResult ==
    called =>
        \A i \in DOMAIN tokeniseWithRaw(query) :
            /\ StemsOf(tokeniseWithRaw(Repeated(query, i))) = QueryStems
            /\ search(Repeated(query, i), optProject, optLimit).list = result

\* the score the list of scores acc holds for docId, 0 when it holds none
ScoreIn(acc, docId) ==
    IF \E i \in DOMAIN acc : acc[i].docId = docId THEN Accumulated(acc, docId) ELSE 0

\* the number of distinct query tokens the heading h contains
DistinctIn(h) ==
    Cardinality({st \in QueryStems : includes(toLowerCase(h), st)})

\* the number of entries of heading k that reference docId
EntriesFor(k, docId) ==
    Cardinality({e \in DOMAIN getAllTitles[k].entries :
                    getAllTitles[k].entries[e].docId = docId})

\* SECTION_WEIGHT x (distinct tokens contained), summed over the entries of
\* the first k headings that reference docId
RECURSIVE SectionSum(_, _)
SectionSum(k, docId) ==
    IF k = 0 THEN 0
    ELSE SectionSum(k - 1, docId)
           + EntriesFor(k, docId) * SECTION_WEIGHT * DistinctIn(getAllTitles[k].title) * Micro

\* the entries <<heading, entry>> of the headings that contain a query stem
MatchedEntries ==
    UNION {{<<k, e>> : e \in DOMAIN getAllTitles[k].entries} :
              k \in {k \in DOMAIN getAllTitles : DistinctIn(getAllTitles[k].title) > 0}}

\* the document an entry <<heading, entry>> references
EntryDoc(p) == getAllTitles[p[1]].entries[p[2]].docId

\* the section loop has taken the scores from tokenScores to scores by the
\* rule of the section bonus
BySectionRule(scores, tokenScores) ==
    /\ \A i \in DOMAIN scores :
          /\ InScope(scores[i].docId, optProject)
          /\ scores[i].score
               = ScoreIn(tokenScores, scores[i].docId)
                   + SectionSum(Len(getAllTitles), scores[i].docId)
          /\ Len(scores[i].sections)
               = Cardinality({p \in MatchedEntries : EntryDoc(p) = scores[i].docId})
    /\ \A p \in MatchedEntries :
          InScope(EntryDoc(p), optProject) =>
              \E i \in DOMAIN scores : scores[i].docId = EntryDoc(p)

\* C25: behind the section loop every scored document is in scope and holds
\* its score from the token loop plus, for every entry of a heading that
\* references it, 2.0 x the number of distinct query tokens the heading
\* contains; it has one recorded section per such heading that contains a
\* stem and entry; and every in-scope document such a heading references is scored.
C25_SectionBonus ==
    called =>
        BySectionRule(scoresOf(tokeniseWithRaw(query), optProject),
                      scoreTokens(newMap, tokeniseWithRaw(query), optProject))

-----------------------------------------------------------------------------
(* search called with words that name members every object inherits        *)

W_prototype == <<"_","_","p","r","o","t","o","t","y","p","e","_","_">>

\* a store over SmallDocs with the given terms and titleterms
MemberSnapshot(bodyTerms, titleTerms) ==
    [version |-> "1",
     projects |-> <<[id |-> P_pa], [id |-> P_pb]>>,
     documents |-> SmallDocs,
     terms |-> bodyTerms,
     titleterms |-> titleTerms,
     alltitles |-> Headings]

\* stores that hold the word constructor in the body index alone, in both
\* indices, and in neither; one of the last holds the title term
\* __prototype__
MemberSnapshots ==
    {MemberSnapshot(<<[term |-> W_constructor, docs |-> <<DocId(P_pa, 0)>>]>>,
                    <<[term |-> W_kernel, docs |-> <<DocId(P_pa, 1)>>]>>),
     MemberSnapshot(<<[term |-> W_constructor, docs |-> <<DocId(P_pa, 0)>>]>>,
                    <<[term |-> W_constructor, docs |-> <<DocId(P_pb, 0)>>]>>),
     MemberSnapshot(<<[term |-> W_quantum, docs |-> <<DocId(P_pb, 0)>>]>>,
                    <<[term |-> W_prototype, docs |-> <<DocId(P_pa, 1)>>],
                      [term |-> W_quantum, docs |-> <<DocId(P_pa, 0)>>]>>),
     MemberSnapshot(<<[term |-> W_proto, docs |-> <<DocId(P_pb, 0)>>]>>,
                    <<[term |-> W_proto, docs |-> <<DocId(P_pa, 0)>>]>>),
     MemberSnapshot(<<>>, <<>>)}

MemberQueries ==
    {W_constructor,
     <<"C","o","n","s","t","r","u","c","t","o","r","s">>,
     W_proto,
     W_proto \o <<" ">> \o W_kernel,
     W_quantum,
     W_quantun,
     <<"Q","u","a","n","t","u","m"," ","k","e","r","n","e","l">>}

MemberInit ==
    /\ index \in MemberSnapshots
    /\ query \in MemberQueries
    /\ optProject \in Projects
    /\ optLimit \in {NoLimit, 1}
    /\ called = FALSE
    /\ result = <<>>
    /\ accessed = {}
    /\ raised = FALSE
    /\ fs = Idle /\ listing = Idle /\ snapshot = Idle /\ exitStatus = Idle /\ log = Idle
    /\ dataSnapshot = Idle /\ dataExitStatus = Idle /\ dataLog = Idle
    /\ loadState = Idle /\ requests = Idle /\ searchEvents = Idle
    /\ earlier = Idle /\ ring = Idle /\ hook = Idle

MemberSpec == MemberInit /\ [][Next]_vars

\* term is a key of the inverted index entries
IsKey(entries, term) == \E i \in DOMAIN entries : entries[i].term = term

\* C30: no call of search ends in an exception, and the lookup of a stem
\* that is no key of terms (of titleterms) gives the empty posting list,
\* whatever the stem is.
C30_NeverRaises ==
    called =>
        /\ raised = FALSE
        /\ \A st \in QueryStems :
              /\ ~IsKey(index.terms, st) => getTermDocs(st) = <<>>
              /\ ~IsKey(index.titleterms, st) => getTitleTermDocs(st) = <<>>

\* the stem has an exact hit: it is a key of titleterms or of terms with a
\* posting list that is not empty
ExactHit(st) ==
    \/ Len(Lookup(index.titleterms, st)) > 0
    \/ Len(Lookup(index.terms, st)) > 0

\* the token loop as the fallback rule states it: a stem with an exact hit
\* is scored from its two posting lists, a stem without from the best fuzzy
\* match among the title keys and the best among the body keys
RECURSIVE byFallbackRule(_, _, _)
byFallbackRule(acc, tokens, project) ==
    IF tokens = <<>> THEN acc
    ELSE IF ExactHit(Head(tokens).stem)
    THEN byFallbackRule(
             scoreExact(scoreExact(acc, Lookup(index.titleterms, Head(tokens).stem),
                                   TITLE_WEIGHT, Head(tokens).stem, project),
                        Lookup(index.terms, Head(tokens).stem),
                        BODY_WEIGHT, Head(tokens).stem, project),
             Tail(tokens), project)
    ELSE byFallbackRule(
             scoreFuzzyFallback(acc, FuzzyTitle(Head(tokens).stem),
                                FuzzyBody(Head(tokens).stem), Head(tokens).stem, project),
             Tail(tokens), project)

\* the list a call returns when its token loop leaves the scores acc
ReturnedFrom(acc, tokens) ==
    slice(rankScores(tokens, sectionBonus(acc, getAllTitles, tokens, optProject)),
          IF optLimit = NoLimit THEN DEFAULT_LIMIT ELSE optLimit)

\* C24: a call that returns has scored every stem by the fallback rule:
\* fuzzy matching, against the title keys and against the body keys, for the
\* stems without an exact hit in either index and for no other stem.
C24_FuzzyIffNoExactHit ==
    (called /\ ~raised /\ Len(tokeniseWithRaw(query)) > 0) =>
        result = ReturnedFrom(byFallbackRule(<<>>, tokeniseWithRaw(query), optProject),
                              tokeniseWithRaw(query))

-----------------------------------------------------------------------------
(* The index-merge pipeline: helpers shared by src/unnamed/part_001 and    *)
(* src/scripts/combine-search-indexes.ts                                   *)

\* s.replace(/pat/g, rep) for a literal pattern
RECURSIVE replaceAll(_, _, _)
replaceAll(s, pat, rep) ==
    IF Len(s) < Len(pat) THEN s
    ELSE IF SubSeq(s, 1, Len(pat)) = pat
    THEN rep \o replaceAll(SubSeq(s, Len(pat) + 1, Len(s)), pat, rep)
    ELSE <<Head(s)>> \o replaceAll(Tail(s), pat, rep)

\* s.replace(/<[^>]+>/g, ""): a "<", at least one character other than ">", a ">"
RECURSIVE stripTags(_)
stripTags(s) ==
    IF s = <<>> THEN s
    ELSE LET close == {k \in 3..Len(s) : s[k] = ">" /\ \A j \in 2..(k - 1) : s[j] # ">"}
         IN  IF Head(s) = "<" /\ Len(s) >= 3 /\ s[2] # ">" /\ close # {}
             THEN stripTags(SubSeq(s, (CHOOSE k \in close : TRUE) + 1, Len(s)))
             ELSE <<Head(s)>> \o stripTags(Tail(s))

\* String.prototype.trim, for blanks
RECURSIVE trim(_)
trim(s) ==
    IF s # <<>> /\ Head(s) = " " THEN trim(Tail(s))
    ELSE IF s # <<>> /\ s[Len(s)] = " " THEN trim(SubSeq(s, 1, Len(s) - 1))
    ELSE s

stripHtml(raw) ==
    LET r0 == stripTags(raw)
        r1 == replaceAll(r0, <<"&","l","t",";">>, <<"<">>)
        r2 == replaceAll(r1, <<"&","g","t",";">>, <<">">>)
        r3 == replaceAll(r2, <<"&","a","m","p",";">>, <<"&">>)
        r4 == replaceAll(r3, <<"&","q","u","o","t",";">>, <<"\"">>)
        r5 == replaceAll(r4, <<"&","#","3","9",";">>, <<"'">>)
        r6 == replaceAll(r5, <<"&","n","b","s","p",";">>, <<" ">>)
    IN  trim(r6)

\* filename.replace(/\.(rst|txt|md)$/, ".html") behind `${basePath}/`
filenameToUrl(basePath, filename) ==
    LET html == <<".","h","t","m","l">>
        htmlPath ==
            IF endsWith(filename, <<".","r","s","t">>) \/ endsWith(filename, <<".","t","x","t">>)
            THEN SubSeq(filename, 1, Len(filename) - 4) \o html
            ELSE IF endsWith(filename, <<".","m","d">>)
            THEN SubSeq(filename, 1, Len(filename) - 3) \o html
            ELSE filename
    IN  basePath \o <<"/">> \o htmlPath

\* a raw term value is a bare number or an array of numbers
Num(n) == [kind |-> "number", n |-> n, a |-> <<>>]
Arr(a) == [kind |-> "array", n |-> 0, a |-> a]

toDocIndexArray(value) == IF value.kind = "array" THEN value.a ELSE <<value.n>>

\* a searchindex.js file is its text before the payload, the payload and the
\* text behind it; the wrapper pattern is /^Search\.setIndex\(([\s\S]+)\)$/
WrapperHead == "Search.setIndex("
WrapperTail == ")"

parseSphinxIndex(filePath, file) ==
    IF file.head = WrapperHead /\ file.tail = WrapperTail
    THEN [ok |-> TRUE, sphinx |-> file.payload, error |-> <<>>]
    ELSE [ok |-> FALSE, sphinx |-> <<>>,
          error |-> [kind |-> "Unexpected searchindex.js format", path |-> filePath]]

\* mutant of HasKey: the accumulator is an object literal and the test is
\* acc[term] !== undefined, which the members of Object.prototype pass
HasKey_Inherited(acc, term) ==
    \/ term \in {<<"_","_","p","r","o","t","o","_","_">>,
                 <<"c","o","n","s","t","r","u","c","t","o","r">>,
                 <<"h","a","s","O","w","n","P","r","o","p","e","r","t","y">>}
    \/ \E i \in DOMAIN acc : acc[i].term = term

\* Object.prototype.hasOwnProperty.call(acc, term), for an accumulator made
\* by Object.create(null) and kept as the list of its entries
HasKey(acc, term) == \E i \in DOMAIN acc : acc[i].term = term

\* postings merged without the project prefix
mergeTerm_NoNamespace(acc, term, rawValue, projectId) ==
    LET idx == toDocIndexArray(rawValue)
        docIds == [i \in DOMAIN idx |-> NumToStr(idx[i])]
    IN  IF ~HasKey(acc, term) THEN Append(acc, [term |-> term, docs |-> docIds])
        ELSE [i \in DOMAIN acc |->
                IF acc[i].term = term THEN [acc[i] EXCEPT !.docs = @ \o docIds] ELSE acc[i]]

\* one iteration of mergeInvertedIndex
mergeTerm(acc, term, rawValue, projectId) ==
    LET idx == toDocIndexArray(rawValue)
        docIds == [i \in DOMAIN idx |-> DocId(projectId, idx[i])]
    IN  IF ~HasKey(acc, term) THEN Append(acc, [term |-> term, docs |-> docIds])
        ELSE [i \in DOMAIN acc |->
                IF acc[i].term = term THEN [acc[i] EXCEPT !.docs = @ \o docIds] ELSE acc[i]]

RECURSIVE mergeInvertedIndex(_, _, _)
mergeInvertedIndex(acc, fragment, projectId) ==
    IF fragment = <<>> THEN acc
    ELSE mergeInvertedIndex(
             mergeTerm(acc, Head(fragment).term, Head(fragment).value, projectId),
             Tail(fragment), projectId)

\* the alltitles loop of main
HasTitle(acc, title) == \E i \in DOMAIN acc : acc[i].title = title

mergeTitle(acc, title, entries, projectId) ==
    LET mapped == [i \in DOMAIN entries |->
                     [docId |-> DocId(projectId, entries[i][1]),
                      anchor |-> IF entries[i][2] = <<>> THEN NullAnchor ELSE entries[i][2]]]
    IN  IF ~HasTitle(acc, title) THEN Append(acc, [title |-> title, entries |-> mapped])
        ELSE [i \in DOMAIN acc |->
                IF acc[i].title = title THEN [acc[i] EXCEPT !.entries = @ \o mapped]
                ELSE acc[i]]

RECURSIVE mergeAllTitles(_, _, _)
mergeAllTitles(acc, fragment, projectId) ==
    IF fragment = <<>> THEN acc
    ELSE mergeAllTitles(
             mergeTitle(acc, Head(fragment).title, Head(fragment).entries, projectId),
             Tail(fragment), projectId)

\* document records numbered from 1
documentRecords_OneBased(sphinx, projectId, docsPath) ==
    [i \in 1..Len(sphinx.filenames) |->
        [id |-> DocId(projectId, i),
         project |-> projectId,
         filename |-> sphinx.filenames[i],
         title |-> stripHtml(IF i <= Len(sphinx.titles) THEN sphinx.titles[i] ELSE <<>>),
         url |-> filenameToUrl(docsPath, sphinx.filenames[i])]]

\* the document records of one project
documentRecords(sphinx, projectId, docsPath) ==
    [i \in 1..Len(sphinx.filenames) |->
        [id |-> DocId(projectId, i - 1),
         project |-> projectId,
         filename |-> sphinx.filenames[i],
         title |-> stripHtml(IF i <= Len(sphinx.titles) THEN sphinx.titles[i] ELSE <<>>),
         url |-> filenameToUrl(docsPath, sphinx.filenames[i])]]

\* combined.terms[key].sort() for every key
sortPostings(acc) == [i \in DOMAIN acc |-> [acc[i] EXCEPT !.docs = sort(@)]]

-----------------------------------------------------------------------------
(* src/unnamed/part_001: resolveBasePath and main                          *)

\* a console.warn line or the message of the uncaught Error
Warn(kind, subject) == [level |-> "warn", kind |-> kind, subject |-> subject]
Thrown(err) == [level |-> "error", kind |-> err.kind, subject |-> err.path]
\* the console.log line behind writeFileSync
Logged(kind) == [level |-> "log", kind |-> kind, subject |-> <<>>]

\* join(a, b) of node:path: joined by "/", runs of "/" collapsed
RECURSIVE collapseSlashes(_)
collapseSlashes(s) ==
    IF Len(s) < 2 THEN s
    ELSE IF s[1] = "/" /\ s[2] = "/" THEN collapseSlashes(Tail(s))
    ELSE <<Head(s)>> \o collapseSlashes(Tail(s))

join(a, b) == collapseSlashes(a \o <<"/">> \o b)

\* `${publicDir}/${projectId}/searchindex.js`, relative to the directory scanned
indexPathOf(projectId) == projectId \o <<"/","s","e","a","r","c","h","i","n","d","e","x",".","j","s">>

\* mutant of resolveBasePath: the external URL of the descriptor is looked at
\* before the local index.html
resolveBasePath_ExternalFirst(dir, projectId) ==
    LET info == IF dir.info.state = "ok" THEN dir.info
                ELSE [state |-> "empty", externalBaseUrl |-> <<>>,
                      externalDocsPath |-> <<>>, suggestedLinks |-> <<>>]
        local == <<"/">> \o projectId
        ext == IF info.externalBaseUrl # <<>> /\ info.externalBaseUrl[Len(info.externalBaseUrl)] = "/"
               THEN SubSeq(info.externalBaseUrl, 1, Len(info.externalBaseUrl) - 1)
               ELSE info.externalBaseUrl
        basePath == IF info.externalBaseUrl # <<>> THEN ext ELSE local
    IN  [basePath |-> basePath,
         docsPath |-> IF info.externalBaseUrl = <<>> THEN local
                      ELSE IF info.externalDocsPath # <<>> THEN join(ext, info.externalDocsPath)
                      ELSE ext,
         isExternal |-> info.externalBaseUrl # <<>>,
         suggestedLinks |-> [i \in DOMAIN info.suggestedLinks |->
                               [title |-> info.suggestedLinks[i].title,
                                url |-> basePath \o info.suggestedLinks[i].path,
                                subtitle |-> info.suggestedLinks[i].subtitle]],
         warnings |-> (IF dir.info.state = "unparsable"
                       THEN <<Warn("Failed to parse projectInfo.json", projectId)>> ELSE <<>>)
                      \o (IF ~dir.hasIndexHtml /\ info.externalBaseUrl = <<>>
                          THEN <<Warn("no local index.html and no externalBaseUrl", projectId)>>
                          ELSE <<>>)]

resolveBasePath(dir, projectId) ==
    LET info == IF dir.info.state = "ok" THEN dir.info
                ELSE [state |-> "empty", externalBaseUrl |-> <<>>,
                      externalDocsPath |-> <<>>, suggestedLinks |-> <<>>]
        w1 == IF dir.info.state = "unparsable"
              THEN <<Warn("Failed to parse projectInfo.json", projectId)>> ELSE <<>>
        local == <<"/">> \o projectId
        ext == IF info.externalBaseUrl # <<>> /\ info.externalBaseUrl[Len(info.externalBaseUrl)] = "/"
               THEN SubSeq(info.externalBaseUrl, 1, Len(info.externalBaseUrl) - 1)
               ELSE info.externalBaseUrl
        basePath == IF dir.hasIndexHtml THEN local
                    ELSE IF info.externalBaseUrl # <<>> THEN ext
                    ELSE local
        docsPath == IF dir.hasIndexHtml THEN local
                    ELSE IF info.externalBaseUrl # <<>>
                    THEN (IF info.externalDocsPath # <<>> THEN join(ext, info.externalDocsPath)
                          ELSE ext)
                    ELSE local
        w2 == IF ~dir.hasIndexHtml /\ info.externalBaseUrl = <<>>
              THEN <<Warn("no local index.html and no externalBaseUrl", projectId)>> ELSE <<>>
    IN  [basePath |-> basePath,
         docsPath |-> docsPath,
         isExternal |-> ~dir.hasIndexHtml /\ info.externalBaseUrl # <<>>,
         suggestedLinks |-> [i \in DOMAIN info.suggestedLinks |->
                               [title |-> info.suggestedLinks[i].title,
                                url |-> basePath \o info.suggestedLinks[i].path,
                                subtitle |-> info.suggestedLinks[i].subtitle]],
         warnings |-> w1 \o w2]

\* the snapshot under construction when main starts
emptyCombined(now) ==
    [version |-> "1", generatedAt |-> now, projects |-> <<>>, documents |-> <<>>,
     terms |-> <<>>, titleterms |-> <<>>, alltitles |-> <<>>]

\* one iteration of the project loop of part_001's main; run is
\* [combined, log, failed]
processProject(run, dirs, projectId) ==
    LET dir == dirs[projectId]
        parsed == parseSphinxIndex(indexPathOf(projectId), dir.searchindex)
        sphinx == parsed.sphinx
        rb == resolveBasePath(dir, projectId)
        docCount == Len(sphinx.filenames)
        meta == [id |-> projectId, basePath |-> rb.basePath, docsPath |-> rb.docsPath,
                 isExternal |-> rb.isExternal, docCount |-> docCount,
                 indexedAt |-> dir.searchindex.mtime, suggestedLinks |-> rb.suggestedLinks]
        w == IF Len(rb.suggestedLinks) > 0 THEN <<>>
             ELSE <<Warn("No suggestedLinks defined in projectInfo.json", projectId)>>
        c == run.combined
    IN  IF ~parsed.ok
        THEN [run EXCEPT !.failed = TRUE, !.log = @ \o <<Thrown(parsed.error)>>]
        ELSE [combined |->
                 [c EXCEPT !.projects = Append(@, meta),
                           !.documents = @ \o documentRecords(sphinx, projectId, rb.docsPath),
                           !.terms = mergeInvertedIndex(@, sphinx.terms, projectId),
                           !.titleterms = mergeInvertedIndex(@, sphinx.titleterms, projectId),
                           !.alltitles = mergeAllTitles(@, sphinx.alltitles, projectId)],
              log |-> run.log \o rb.warnings \o w,
              failed |-> FALSE]

\* the project loop: stops at the first project whose index does not parse
RECURSIVE processProjects(_, _, _)
processProjects(run, dirs, ids) ==
    IF ids = <<>> \/ run.failed THEN run
    ELSE processProjects(processProject(run, dirs, Head(ids)), dirs, Tail(ids))

\* the listing taken in the order readdirSync returned it
discoverProjects_ListingOrder(names) == names

\* readdirSync(...).filter(isDirectory).map(name).sort()
discoverProjects(names) == sort(names)

\* the accumulators when the project loop starts
startRun(now) == [combined |-> emptyCombined(now), log |-> <<>>, failed |-> FALSE]

\* behind the project loop: nothing when the loop threw; otherwise the postings
\* sorted, writeFileSync and the summary line
sortAndWrite(run) ==
    IF run.failed
    THEN [written |-> FALSE, combined |-> run.combined, exit |-> "error", log |-> run.log]
    ELSE [written |-> TRUE,
          combined |-> [run.combined EXCEPT !.terms = sortPostings(@),
                                            !.titleterms = sortPostings(@)],
          exit |-> "ok",
          log |-> run.log \o <<Logged("Combined search index written")>>]

\* a main that writes what it had merged when a project fails
main_WritesPartial(dirs, names, now) ==
    LET projectsWithIndex ==
            SelectSeq(sort(names), LAMBDA n : dirs[n].searchindex.exists)
    IN  IF Len(projectsWithIndex) = 0
        THEN [written |-> FALSE, combined |-> emptyCombined(now), exit |-> "ok",
              log |-> <<Warn("No project directories with searchindex.js found", <<>>)>>]
        ELSE [sortAndWrite(processProjects(startRun(now), dirs, projectsWithIndex))
                 EXCEPT !.written = TRUE]

\* main() of part_001: what it leaves behind.  written: writeFileSync ran;
\* exit: "ok" (status 0) or "error" (uncaught exception)
main(dirs, names, now) ==
    LET projectsWithIndex ==
            SelectSeq(discoverProjects(names), LAMBDA n : dirs[n].searchindex.exists)
    IN  IF Len(projectsWithIndex) = 0
        THEN [written |-> FALSE, combined |-> emptyCombined(now), exit |-> "ok",
              log |-> <<Warn("No project directories with searchindex.js found", <<>>)>>]
        ELSE sortAndWrite(processProjects(startRun(now), dirs, projectsWithIndex))

-----------------------------------------------------------------------------
(* src/scripts/combine-search-indexes.ts: main                             *)

\* one iteration of the project loop
dataProcessProject(run, dirs, projectId) ==
    LET dir == dirs[projectId]
        parsed == parseSphinxIndex(indexPathOf(projectId), dir.searchindex)
        sphinx == parsed.sphinx
        basePath == <<"/">> \o projectId
        meta == [id |-> projectId, basePath |-> basePath,
                 docCount |-> Len(sphinx.filenames), indexedAt |-> dir.searchindex.mtime]
        c == run.combined
    IN  IF ~dir.searchindex.exists
        THEN [run EXCEPT !.log = @ \o <<Warn("Skipping: no searchindex.js found", projectId)>>]
        ELSE IF ~parsed.ok
        THEN [run EXCEPT !.failed = TRUE, !.log = @ \o <<Thrown(parsed.error)>>]
        ELSE [combined |->
                 [c EXCEPT !.projects = Append(@, meta),
                           !.documents = @ \o documentRecords(sphinx, projectId, basePath),
                           !.terms = mergeInvertedIndex(@, sphinx.terms, projectId),
                           !.titleterms = mergeInvertedIndex(@, sphinx.titleterms, projectId),
                           !.alltitles = mergeAllTitles(@, sphinx.alltitles, projectId)],
              log |-> run.log,
              failed |-> FALSE]

RECURSIVE dataProcessProjects(_, _, _)
dataProcessProjects(run, dirs, ids) ==
    IF ids = <<>> \/ run.failed THEN run
    ELSE dataProcessProjects(dataProcessProject(run, dirs, Head(ids)), dirs, Tail(ids))

\* main() of scripts/combine-search-indexes.ts
dataMain(dirs, names, now) ==
    IF Len(names) = 0
    THEN [written |-> FALSE, combined |-> emptyCombined(now), exit |-> "ok",
          log |-> <<Warn("No project directories found", <<>>)>>]
    ELSE sortAndWrite(dataProcessProjects(startRun(now), dirs, sort(names)))

-----------------------------------------------------------------------------
(* The directories the merger scans                                        *)

P_pc == <<"p","c">>

DirNames == {P_pa, P_pb, P_pc}

F_index == <<"i","n","d","e","x",".","r","s","t">>
F_api   == <<"a","p","i",".","m","d">>
F_notes == <<"n","o","t","e","s",".","t","x","t">>

T_Alpha == <<"<","b",">","A","l","p","h","a","<","/","b",">">>
T_AandB == <<"A"," ","&","a","m","p",";"," ","B">>
T_Gamma == <<" ","G","a","m","m","a"," ">>
H_Quantum == <<"Q","u","a","n","t","u","m">>
H_Kernel  == <<"K","e","r","n","e","l">>
A_q == <<"q">>
A_k == <<"k">>

\* a heading named like a member of Object.prototype
H_hasOwnProperty == <<"h","a","s","O","w","n","P","r","o","p","e","r","t","y">>

\* the payload of a searchindex.js, as JSON.parse returns it
RawNone ==
    [filenames |-> <<>>, titles |-> <<>>, terms |-> <<>>, titleterms |-> <<>>,
     alltitles |-> <<>>]

RawOne ==
    [filenames |-> <<F_index>>,
     titles |-> <<T_Alpha>>,
     terms |-> <<[term |-> W_quantum, value |-> Num(0)],
                 [term |-> W_proto, value |-> Num(0)]>>,
     titleterms |-> <<[term |-> W_constructor, value |-> Num(0)],
                      [term |-> W_quantum, value |-> Num(0)]>>,
     alltitles |-> <<[title |-> H_Quantum, entries |-> << <<0, <<>> >> >>],
                     [title |-> H_hasOwnProperty, entries |-> << <<0, A_q>> >>]>>]

RawTwo ==
    [filenames |-> <<F_index, F_api>>,
     titles |-> <<T_Gamma, T_AandB>>,
     terms |-> <<[term |-> W_constructor, value |-> Arr(<<0, 1>>)],
                 [term |-> W_kernel, value |-> Arr(<<1, 0>>)],
                 [term |-> W_proto, value |-> Num(1)],
                 [term |-> W_quantum, value |-> Num(1)]>>,
     titleterms |-> <<[term |-> W_kernel, value |-> Num(1)],
                      [term |-> W_proto, value |-> Num(0)]>>,
     alltitles |-> <<[title |-> H_hasOwnProperty, entries |-> << <<1, <<>> >> >>],
                     [title |-> H_Quantum, entries |-> << <<1, A_q>> >>],
                     [title |-> H_Kernel, entries |-> << <<0, <<>> >>, <<1, A_k>> >>]>>]

\* a payload whose postings point past its filenames
RawDangling ==
    [filenames |-> <<F_notes>>,
     titles |-> <<T_Gamma>>,
     terms |-> <<[term |-> W_quantum, value |-> Arr(<<0, 2>>)]>>,
     titleterms |-> <<>>,
     alltitles |-> <<[title |-> H_Kernel, entries |-> << <<1, A_k>> >>]>>]

MaxTime == 2
\* new Date() of a run
Times == 1..MaxTime

\* projectInfo.json of a directory
NoInfo(state) ==
    [state |-> state, externalBaseUrl |-> <<>>, externalDocsPath |-> <<>>,
     suggestedLinks |-> <<>>]

U_x == <<"h","t","t","p","s",":","/","/","x",".","i","o">>
U_y == <<"h","t","t","p","s",":","/","/","y",".","i","o">>

\* pa has a local index.html and a descriptor that gives an external URL too
InfoOf(d) ==
    IF d = P_pa
    THEN [NoInfo("ok") EXCEPT
            !.externalBaseUrl = U_y,
            !.suggestedLinks = <<[title |-> W_alpha, path |-> <<"/","a">>, subtitle |-> W_beta]>>]
    ELSE IF d = P_pb
    THEN [NoInfo("ok") EXCEPT
            !.externalBaseUrl = U_x \o <<"/">>,
            !.externalDocsPath = <<"d","o","c","s">>]
    ELSE NoInfo("unparsable")

\* other descriptors a directory with the raw index RawTwo may hold: pb a
\* URL that ends in two slashes, pc no projectInfo.json at all
OtherInfos(d) ==
    IF d = P_pb THEN {[NoInfo("ok") EXCEPT !.externalBaseUrl = U_x \o <<"/","/">>]}
    ELSE IF d = P_pc THEN {NoInfo("missing")}
    ELSE {}

\* searchindex.js of a directory
NoFile == [exists |-> FALSE, head |-> "", payload |-> RawNone, tail |-> "", mtime |-> 0]
GoodFile(raw) ==
    [exists |-> TRUE, head |-> WrapperHead, payload |-> raw, tail |-> WrapperTail, mtime |-> 1]
BadFiles ==
    {[exists |-> TRUE, head |-> "Search.setindex(", payload |-> RawOne, tail |-> ")", mtime |-> 1],
     [exists |-> TRUE, head |-> WrapperHead, payload |-> RawOne, tail |-> ");", mtime |-> 1]}

RawsOf(d) ==
    IF d = P_pa THEN {RawOne, RawTwo}
    ELSE IF d = P_pb THEN {RawTwo, RawDangling}
    ELSE {RawNone, RawOne}

Dir(d, present, file) ==
    [present |-> present, hasIndexHtml |-> (d = P_pa), info |-> InfoOf(d), searchindex |-> file]

DirStates(d) ==
    {Dir(d, FALSE, NoFile), Dir(d, TRUE, NoFile)}
        \cup {Dir(d, TRUE, f) : f \in BadFiles}
        \cup {Dir(d, TRUE, GoodFile(raw)) : raw \in RawsOf(d)}
        \cup {[Dir(d, TRUE, GoodFile(RawTwo)) EXCEPT !.info = i] : i \in OtherInfos(d)}

FileSystems == {f \in [DirNames -> UNION {DirStates(d) : d \in DirNames}] :
                   \A d \in DirNames : f[d] \in DirStates(d)}

\* the orders readdirSync may return a set of names in
Orders(S) ==
    {l \in [1..Cardinality(S) -> S] : \A i, j \in 1..Cardinality(S) : l[i] = l[j] => i = j}

\* combined-searchindex.json before the run: absent, or left by an earlier run
Absent == [version |-> "absent"]
OldSnapshot ==
    [emptyCombined(0) EXCEPT
        !.projects = <<[id |-> <<"o","l","d">>, docCount |-> 0]>>]
Before == {Absent, OldSnapshot}

MergeInit ==
    /\ fs \in FileSystems
    /\ listing \in Orders({d \in DirNames : fs[d].present})
    /\ snapshot \in Before /\ dataSnapshot = snapshot
    /\ exitStatus = "notrun" /\ dataExitStatus = "notrun"
    /\ log = <<>> /\ dataLog = <<>>
    /\ index = Idle /\ query = Idle /\ optProject = Idle /\ optLimit = Idle
    /\ called = Idle /\ result = Idle /\ accessed = Idle /\ raised = Idle
    /\ loadState = Idle /\ requests = Idle /\ searchEvents = Idle
    /\ earlier = Idle /\ ring = Idle /\ hook = Idle

\* one run of part_001's main over public/
RunMain ==
    /\ exitStatus = "notrun"
    /\ \E now \in Times : \E r \in {main(fs, listing, now)} :
          /\ snapshot' = IF r.written THEN r.combined ELSE snapshot
          /\ exitStatus' = r.exit
          /\ log' = r.log
    /\ UNCHANGED <<fs, listing, dataSnapshot, dataExitStatus, dataLog, searchVars, serverVars, extraVars>>

\* one run of scripts/combine-search-indexes.ts's main over data/
RunDataMain ==
    /\ dataExitStatus = "notrun"
    /\ \E now \in Times : \E r \in {dataMain(fs, listing, now)} :
          /\ dataSnapshot' = IF r.written THEN r.combined ELSE dataSnapshot
          /\ dataExitStatus' = r.exit
          /\ dataLog' = r.log
    /\ UNCHANGED <<fs, listing, snapshot, exitStatus, log, searchVars, serverVars, extraVars>>

MergeNext == RunMain \/ RunDataMain

MergeSpec == MergeInit /\ [][MergeNext]_vars

-----------------------------------------------------------------------------
(* Properties of the merger                                                *)

\* the directories listed, those among them that hold a searchindex.js, and
\* those that do not
Listed == {d \in DirNames : fs[d].present}
Qualifying == {d \in Listed : fs[d].searchindex.exists}
MissingIndex == Listed \ Qualifying
Malformed(d) ==
    fs[d].searchindex.head # WrapperHead \/ fs[d].searchindex.tail # WrapperTail

\* the run ended behind writeFileSync
WroteLog(l) == Len(l) > 0 /\ l[Len(l)] = Logged("Combined search index written")
Wrote == WroteLog(log)
DataWrote == WroteLog(dataLog)

RECURSIVE SumFilenames(_)
SumFilenames(S) ==
    IF S = {} THEN 0
    ELSE LET d == CHOOSE x \in S : TRUE
         IN  Len(fs[d].searchindex.payload.filenames) + SumFilenames(S \ {d})

DocumentIds(c) == {c.documents[k].id : k \in DOMAIN c.documents}

\* C5: a written snapshot has one projects entry per directory holding a raw
\* index and as many documents as those indices have filenames; every document
\* id is "<projectId>:<i>" with projectId the id of a projects entry and
\* 0 <= i < its docCount; no two documents share an id.
C5_ProjectsAndDocuments ==
    Wrote =>
        /\ Len(snapshot.projects) = Cardinality(Qualifying)
        /\ Len(snapshot.documents) = SumFilenames(Qualifying)
        /\ \A k \in DOMAIN snapshot.documents :
              \E p \in DOMAIN snapshot.projects :
                 \E i \in 0..(snapshot.projects[p].docCount - 1) :
                    snapshot.documents[k].id = DocId(snapshot.projects[p].id, i)
        /\ \A j, k \in DOMAIN snapshot.documents :
              snapshot.documents[j].id = snapshot.documents[k].id => j = k

C5_Witness ==
    /\ Wrote
    /\ Cardinality(Qualifying) = 3
    /\ Len(snapshot.documents) = 5
    /\ MissingIndex = {}

\* every document id a snapshot refers to from terms, titleterms and alltitles
Referenced(c) ==
    UNION {{c.terms[k].docs[i] : i \in DOMAIN c.terms[k].docs} : k \in DOMAIN c.terms}
    \cup UNION {{c.titleterms[k].docs[i] : i \in DOMAIN c.titleterms[k].docs} :
                  k \in DOMAIN c.titleterms}
    \cup UNION {{c.alltitles[k].entries[i].docId : i \in DOMAIN c.alltitles[k].entries} :
                  k \in DOMAIN c.alltitles}

\* every local index of a raw index is below its number of filenames
InRange(raw) ==
    LET n == Len(raw.filenames)
        ok(fragment) ==
            \A k \in DOMAIN fragment :
               \A i \in DOMAIN toDocIndexArray(fragment[k].value) :
                  toDocIndexArray(fragment[k].value)[i] \in 0..(n - 1)
    IN  /\ ok(raw.terms)
        /\ ok(raw.titleterms)
        /\ \A k \in DOMAIN raw.alltitles :
              \A i \in DOMAIN raw.alltitles[k].entries :
                 raw.alltitles[k].entries[i][1] \in 0..(n - 1)

\* C6 as stated: in a written snapshot every document id under a key of terms
\* or titleterms, and every docId of alltitles, is the id of a record of
\* documents.
C6_ReferencedIdsExist ==
    Wrote => Referenced(snapshot) \subseteq DocumentIds(snapshot)

\* C6: the same, for runs over raw indices whose local indices are all below
\* the index's number of filenames.
C6_ReferencedIdsExistWhenInRange ==
    (Wrote /\ \A d \in Qualifying : InRange(fs[d].searchindex.payload)) =>
        Referenced(snapshot) \subseteq DocumentIds(snapshot)

C6_Witness ==
    /\ Wrote
    /\ \A d \in Qualifying : InRange(fs[d].searchindex.payload)
    /\ Cardinality(Qualifying) >= 2
    /\ Cardinality(Referenced(snapshot)) >= 3

\* a snapshot without its timestamp
Payload(c) == [c EXCEPT !.generatedAt = 0]

\* the run r of the merger on the sorted listing wrote the payload of c
FromSortedListing(r, c) == r.written /\ Payload(r.combined) = Payload(c)

\* C7: whatever order the listing returns the same directories in, and
\* whenever the run happens, the merger writes the same projects, documents,
\* terms, titleterms and alltitles: the snapshot written from any listing at
\* any time is the one written from the sorted listing at every time.
C7_ListingOrderIrrelevant ==
    Wrote =>
        \A t \in Times : FromSortedListing(main(fs, sort(listing), t), snapshot)

C7_Witness ==
    /\ Wrote
    /\ Cardinality(Qualifying) >= 2
    /\ listing # sort(listing)
    /\ Len(snapshot.projects) >= 2

C9_NoProjectsNoWrite ==
    [][Qualifying = {} =>
         /\ (exitStatus = "notrun" /\ exitStatus' # "notrun")
               => (exitStatus' = "ok" /\ snapshot' = snapshot)
         /\ (dataExitStatus = "notrun" /\ dataExitStatus' # "notrun")
               => (dataExitStatus' = "ok" /\ dataSnapshot' = dataSnapshot)]_vars

\* the log holds a warning about directory d
WarnedAbout(l, d) == \E i \in DOMAIN l : l[i].level = "warn" /\ l[i].subject = d

ListingWithout(d) == SelectSeq(listing, LAMBDA n : n # d)

\* C10 as stated: a run of either merger that writes a snapshot has warned
\* about every directory without a raw index, and the snapshot is the one the
\* merger writes when that directory does not exist.
C10_MissingIndexSkippedWithWarning ==
    /\ Wrote =>
          \A d \in MissingIndex :
             /\ WarnedAbout(log, d)
             /\ LET r == main(fs, ListingWithout(d), 1)
                IN  r.written /\ Payload(r.combined) = Payload(snapshot)
    /\ DataWrote =>
          \A d \in MissingIndex :
             /\ WarnedAbout(dataLog, d)
             /\ LET r == dataMain(fs, ListingWithout(d), 1)
                IN  r.written /\ Payload(r.combined) = Payload(dataSnapshot)


\* the terms and headings the raw indices hold
RawTerms == {W_quantum, W_kernel, W_proto, W_constructor}
RawTitles == {H_Quantum, H_Kernel, H_hasOwnProperty}

\* the namespaced ids the raw indices list under key t of `field`
RawIds(field, t) ==
    UNION {{DocId(d, n) : n \in
               UNION {Range(toDocIndexArray(fs[d].searchindex.payload[field][e].value)) :
                         e \in {e \in DOMAIN fs[d].searchindex.payload[field] :
                                   fs[d].searchindex.payload[field][e].term = t}}} :
           d \in Qualifying}

\* the posting list stored under t is exactly ids, each id once
StoresExactly(entries, t, ids) ==
    /\ Range(Lookup(entries, t)) = ids
    /\ Len(Lookup(entries, t)) = Cardinality(ids)
    /\ ids # {} => HasKey(entries, t)

\* a raw payload without the key t
RawWithout(raw, t) ==
    [raw EXCEPT !.terms = SelectSeq(@, LAMBDA e : e.term # t),
                !.titleterms = SelectSeq(@, LAMBDA e : e.term # t),
                !.alltitles = SelectSeq(@, LAMBDA e : e.title # t)]

\* the directories with key t taken out of every raw index
FsWithout(t) ==
    [d \in DirNames |-> [fs[d] EXCEPT !.searchindex.payload = RawWithout(@, t)]]

\* c is the snapshot other, but for the entries of key t
SameButFor(c, other, t) ==
    /\ SelectSeq(c.terms, LAMBDA e : e.term # t) = other.terms
    /\ SelectSeq(c.titleterms, LAMBDA e : e.term # t) = other.titleterms
    /\ SelectSeq(c.alltitles, LAMBDA e : e.title # t) = other.alltitles
    /\ c.documents = other.documents

\* C19: for every term of the raw indices, "__proto__" and "constructor"
\* among them, a written snapshot holds under that term exactly the
\* namespaced ids "<projectId>:<n>" of its postings in all merged projects,
\* in terms and in titleterms; and for every term or heading, "hasOwnProperty"
\* among them, the entries of every other key of terms, titleterms and
\* alltitles are what the merge writes when that key is in no raw index.
C19_PrototypeNamedTerms ==
    /\ Wrote =>
          /\ \A t \in RawTerms :
                /\ StoresExactly(snapshot.terms, t, RawIds("terms", t))
                /\ StoresExactly(snapshot.titleterms, t, RawIds("titleterms", t))
          /\ \A t \in RawTerms \cup RawTitles :
                SameButFor(snapshot, main(FsWithout(t), listing, 1).combined, t)
    /\ DataWrote =>
          \A t \in RawTerms :
             /\ StoresExactly(dataSnapshot.terms, t, RawIds("terms", t))
             /\ StoresExactly(dataSnapshot.titleterms, t, RawIds("titleterms", t))

\* a snapshot was written from two raw indices that both hold the body term
\* "__proto__" and from a heading "hasOwnProperty"
C19_Witness ==
    /\ Wrote
    /\ Len(Lookup(snapshot.terms, W_proto)) = 2
    /\ Len(Lookup(snapshot.titleterms, W_constructor)) = 1
    /\ \E i \in DOMAIN snapshot.alltitles : snapshot.alltitles[i].title = H_hasOwnProperty


\* the external base URL the descriptor of directory d gives, <<>> when the
\* descriptor is missing, unparsable or silent about it
GivenUrl(d) == IF fs[d].info.state = "ok" THEN fs[d].info.externalBaseUrl ELSE <<>>

\* base is url without one trailing slash
MinusOneSlash(base, url) ==
    IF endsWith(url, <<"/">>) THEN base \o <<"/">> = url ELSE base = url

\* the run warned that directory d has neither index.html nor external URL
NoLocalWarning(d) ==
    \E i \in DOMAIN log : log[i] = Warn("no local index.html and no externalBaseUrl", d)

\* the projects entry p of a written snapshot follows the priority
BasePathByPriority(p) ==
    IF fs[p.id].hasIndexHtml
    THEN p.basePath = <<"/">> \o p.id /\ ~p.isExternal /\ ~NoLocalWarning(p.id)
    ELSE IF GivenUrl(p.id) # <<>>
    THEN /\ MinusOneSlash(p.basePath, GivenUrl(p.id)) /\ p.isExternal
         /\ ~NoLocalWarning(p.id)
    ELSE p.basePath = <<"/">> \o p.id /\ ~p.isExternal /\ NoLocalWarning(p.id)

\* C20: every project of a written snapshot is local with base path
\* "/<projectId>" when its directory has an index.html, whatever URL its
\* descriptor gives; else external with the descriptor's external base URL
\* less one trailing slash when the descriptor gives one; else local with
\* base path "/<projectId>" and a warning.  A run ends in an error only when
\* a raw index is malformed: a missing or unparsable descriptor lets the
\* snapshot be written with every project that has a raw index.
C20_BasePathPriority ==
    /\ Wrote => \A i \in DOMAIN snapshot.projects : BasePathByPriority(snapshot.projects[i])
    /\ exitStatus = "error" => \E d \in Qualifying : Malformed(d)
    /\ (exitStatus = "ok" /\ Qualifying # {}) =>
          /\ Wrote
          /\ {snapshot.projects[i].id : i \in DOMAIN snapshot.projects} = Qualifying

\* a snapshot was written with a local project whose descriptor gives a URL,
\* an external project and a project whose descriptor is unparsable
C20_Witness ==
    /\ Wrote
    /\ Qualifying = DirNames
    /\ GivenUrl(P_pa) # <<>> /\ fs[P_pa].hasIndexHtml
    /\ fs[P_pc].info.state = "unparsable"
    /\ \E i \in DOMAIN snapshot.projects :
          snapshot.projects[i].id = P_pb /\ snapshot.projects[i].isExternal

\* the external sub-path the descriptor of directory d gives, <<>> when it
\* gives none
GivenDocsPath(d) == IF fs[d].info.state = "ok" THEN fs[d].info.externalDocsPath ELSE <<>>

\* url less one trailing slash
StripSlash(url) ==
    IF endsWith(url, <<"/">>) THEN SubSeq(url, 1, Len(url) - 1) ELSE url

\* the documents of project p in the written snapshot
DocumentsOf(p) == SelectSeq(snapshot.documents, LAMBDA d : d.project = p)

\* the docs path and the document URLs of the projects entry p keep the
\* external base URL of its descriptor, followed by the sub-path
KeepsBase(p, base, sub) ==
    /\ p.docsPath = base \o <<"/">> \o sub
    /\ \A d \in Range(DocumentsOf(p.id)) : startsWith(d.url, base \o <<"/">> \o sub \o <<"/">>)

\* C21: in a written snapshot, every external project whose descriptor gives
\* the external base URL B and the external sub-path S has the docs path
\* B-less-one-trailing-slash followed by "/" and S, and the URL of each of
\* its documents starts with that docs path: scheme, "//" and host of B are
\* kept as they are.
C21_DocsUrlKeepsBase ==
    Wrote =>
        \A i \in DOMAIN snapshot.projects :
            (snapshot.projects[i].isExternal /\ GivenDocsPath(snapshot.projects[i].id) # <<>>) =>
                KeepsBase(snapshot.projects[i],
                          StripSlash(GivenUrl(snapshot.projects[i].id)),
                          GivenDocsPath(snapshot.projects[i].id))

-----------------------------------------------------------------------------
(* src/src/lib/search-index.ts: module initialisation and getProject       *)

Unparsable == [version |-> "unparsable"]  \* a file JSON.parse throws on

\* mutant of loadIndex: the schema version is not compared
loadIndex_AnyVersion(file) ==
    IF file = Absent \/ file = Unparsable
    THEN [ok |-> FALSE, index |-> Absent]
    ELSE [ok |-> TRUE, index |-> file]

\* the top-level statements of the module: existsSync, JSON.parse, the
\* version test; ok is FALSE when one of them throws
loadIndex(file) ==
    IF file = Absent THEN [ok |-> FALSE, index |-> Absent]
    ELSE IF file = Unparsable THEN [ok |-> FALSE, index |-> Absent]
    ELSE IF file.version # "1" THEN [ok |-> FALSE, index |-> Absent]
    ELSE [ok |-> TRUE, index |-> file]

\* getProject(id) is truthy
getProject(id) == \E i \in DOMAIN index.projects : index.projects[i].id = id

-----------------------------------------------------------------------------
(* telemetry: CircularBuffer and recordSearchPerformed                     *)

MAX_EVENTS == 1000

CircularBuffer == [buf |-> <<>>, head |-> 0]

\* mutant of push: a full buffer overwrites the slot at head and leaves head
\* where it is
push_HeadStays(buffer, item) ==
    IF Len(buffer.buf) < MAX_EVENTS
    THEN [buffer EXCEPT !.buf = Append(@, item)]
    ELSE [buf |-> [buffer.buf EXCEPT ![buffer.head + 1] = item],
          head |-> buffer.head]

\* CircularBuffer.push
push(buffer, item) ==
    IF Len(buffer.buf) < MAX_EVENTS
    THEN [buffer EXCEPT !.buf = Append(@, item)]
    ELSE [buf |-> [buffer.buf EXCEPT ![buffer.head + 1] = item],
          head |-> (buffer.head + 1) % MAX_EVENTS]

\* CircularBuffer.toArray
toArray(buffer) ==
    IF Len(buffer.buf) < MAX_EVENTS THEN buffer.buf
    ELSE SubSeq(buffer.buf, buffer.head + 1, Len(buffer.buf))
           \o SubSeq(buffer.buf, 1, buffer.head)

\* CircularBuffer.size
size(buffer) == Len(buffer.buf)

\* the timestamp of the event is a clock reading and is left out
recordSearchPerformed(buffer, q, project, resultCount) ==
    push(buffer, [event |-> "search_performed", query |-> q,
                  project |-> project, resultCount |-> resultCount])

-----------------------------------------------------------------------------
(* src/src/app/api/search/route.ts: GET                                    *)

Q_MIN == 1          \* z.string().min(1)
Q_MAX == 200        \* z.string().max(200)
LIMIT_MIN == 1      \* z.coerce.number().int().min(1)
LIMIT_MAX == 50     \* .max(50)
OVERFETCH == 500    \* search(q, { project, limit: 500 })

NoQuery == <<"undefined">>   \* parameter q not given

\* project ?? null
orNull(project) == IF project = NoProject THEN NullAnchor ELSE project

\* querySchema.safeParse(params); params.limit is the number the parameter
\* coerces to, NoLimit when it is not given
querySchema(params) ==
    [success |-> /\ params.q # NoQuery
                 /\ Len(params.q) >= Q_MIN
                 /\ Len(params.q) <= Q_MAX
                 /\ (params.limit = NoLimit
                       \/ (params.limit >= LIMIT_MIN /\ params.limit <= LIMIT_MAX)),
     data |-> [q |-> params.q, project |-> params.project,
               limit |-> IF params.limit = NoLimit THEN DEFAULT_LIMIT ELSE params.limit]]

\* no response yet; status, the body's error, results and meta (durationMs
\* is a clock difference and is left out)
NoResponse ==
    [status |-> 0, error |-> <<>>, results |-> <<>>, query |-> <<>>,
     project |-> NullAnchor, count |-> 0, total |-> 0]

\* what a run of GET does: the response, the functions of the other modules
\* it called, the telemetry events it recorded
Outcome(response, calls, events) ==
    [response |-> response, calls |-> calls, events |-> events]

invalidParameters ==
    Outcome([NoResponse EXCEPT !.status = 400, !.error = <<"Invalid parameters">>],
            <<>>, <<>>)

unknownProject(project) ==
    Outcome([NoResponse EXCEPT !.status = 404, !.error = <<"Unknown project", project>>],
            <<"getProject">>, <<>>)

\* lines 70-93: the slice, the telemetry event and the body
respond(data, allResults, limited, calls) ==
    Outcome([status |-> 200, error |-> <<>>, results |-> limited, query |-> data.q,
             project |-> orNull(data.project),
             count |-> Len(limited), total |-> Len(allResults)],
            calls \o <<"search", "recordSearchPerformed">>,
            <<[q |-> data.q, project |-> orNull(data.project),
               resultCount |-> Len(limited)]>>)

\* an exception the handler does not catch: the framework answers 500
uncaught(calls) ==
    Outcome([NoResponse EXCEPT !.status = 500], calls \o <<"search">>, <<>>)

\* lines 70-93 behind the call of search that ended as r
answered(data, r, calls) ==
    IF r.raised THEN uncaught(calls)
    ELSE respond(data, r.list, slice(r.list, data.limit), calls)

\* lines 69-93, for a request that passed both validations
found(data, calls) ==
    answered(data, search(data.q, data.project, OVERFETCH), calls)

\* mutant of validated: an unknown project is searched like a known one
validated_NoProjectCheck(data) ==
    found(data, IF data.project # NoProject THEN <<"getProject">> ELSE <<>>)

\* lines 58-93, for parameters that passed querySchema
validated(data) ==
    IF data.project # NoProject /\ ~getProject(data.project)
    THEN unknownProject(data.project)
    ELSE found(data, IF data.project # NoProject THEN <<"getProject">> ELSE <<>>)

\* GET(request), request.nextUrl.searchParams being params
GET(params) ==
    IF ~querySchema(params).success THEN invalidParameters
    ELSE validated(querySchema(params).data)

-----------------------------------------------------------------------------
(* The server: one module initialisation, then requests in any order       *)

MaxRequests == 2              \* requests the server is sent

Slots == 1..MaxRequests

P_zz == <<"z","z">>

LongQuery == [i \in 1..(Q_MAX + 1) |-> "a"]

Request(q, project, limit) ==
    [params |-> [q |-> q, project |-> project, limit |-> limit],
     response |-> NoResponse, calls |-> <<>>]

ServeRequests ==
    {Request(W_quantum, NoProject, NoLimit),
     Request(W_kernel, P_pa, 1),
     Request(W_quantum, P_zz, NoLimit),
     Request(<<>>, P_zz, NoLimit),
     Request(W_gamma, P_pb, NoLimit),
     Request(W_kernel, NoProject, 0),
     Request(NoQuery, NoProject, LIMIT_MAX),
     Request(LongQuery, P_pa, LIMIT_MAX + 1)}

FullSnapshot ==
    Snapshot(SmallDocs, TitlePostings, BodyPostings, {H_QuantumKernel, H_Methods})

ServeFiles ==
    {Absent, Unparsable, [FullSnapshot EXCEPT !.version = "2"],
     FullSnapshot, Snapshot(SmallDocs, TitlePostings, {}, {}), BigSnapshot}

\* the process before search-index.ts is first imported
ServeStart(file, reqs) ==
    /\ snapshot = file
    /\ requests = reqs
    /\ index = Absent
    /\ loadState = "init"
    /\ searchEvents = CircularBuffer
    /\ query = Idle /\ optProject = Idle /\ optLimit = Idle
    /\ called = Idle /\ result = Idle /\ accessed = Idle /\ raised = Idle
    /\ earlier = Idle /\ ring = Idle /\ hook = Idle
    /\ fs = Idle /\ listing = Idle /\ exitStatus = Idle /\ log = Idle
    /\ dataSnapshot = Idle /\ dataExitStatus = Idle /\ dataLog = Idle

ServeInit ==
    \E file \in ServeFiles : \E reqs \in [Slots -> ServeRequests] : ServeStart(file, reqs)

\* the first import of search-index.ts runs its top-level statements; a
\* throw there fails the import of route.ts, whose GET then never runs
Load ==
    /\ loadState = "init"
    /\ \E l \in {loadIndex(snapshot)} :
          /\ loadState' = (IF l.ok THEN "ready" ELSE "failed")
          /\ index' = l.index
    /\ UNCHANGED <<requests, searchEvents, snapshot>>
    /\ UNCHANGED <<query, optProject, optLimit, called, result, accessed, raised>>
    /\ UNCHANGED <<fs, listing, exitStatus, log, dataSnapshot, dataExitStatus, dataLog, extraVars>>

RECURSIVE pushAll(_, _)
pushAll(buffer, events) ==
    IF events = <<>> THEN buffer
    ELSE pushAll(recordSearchPerformed(buffer, Head(events).q, Head(events).project,
                                       Head(events).resultCount),
                 Tail(events))

\* one run of GET, from its first statement to its return: the handler has
\* no await, so no other request runs in between
HandleRequest(r) ==
    /\ loadState = "ready"
    /\ requests[r].response.status = 0
    /\ \E out \in {GET(requests[r].params)} :
          /\ requests' = [requests EXCEPT ![r].response = out.response,
                                          ![r].calls = out.calls]
          /\ searchEvents' = pushAll(searchEvents, out.events)
    /\ UNCHANGED <<index, loadState, snapshot>>
    /\ UNCHANGED <<query, optProject, optLimit, called, result, accessed, raised>>
    /\ UNCHANGED <<fs, listing, exitStatus, log, dataSnapshot, dataExitStatus, dataLog, extraVars>>

ServeNext == Load \/ \E r \in Slots : HandleRequest(r)

ServeSpec == ServeInit /\ [][ServeNext]_vars

-----------------------------------------------------------------------------
(* Properties of the server                                                *)

Handled(r) == requests[r].response.status # 0

Untouched ==
    /\ \A r \in Slots : ~Handled(r) /\ requests[r].calls = <<>>
    /\ searchEvents = CircularBuffer

\* C11: the store is loaded (loadState "ready") only from a snapshot file that
\* exists, parses and carries version "1"; in every other case loading fails,
\* and while the store is not loaded no request is handled, no function of
\* the store or of the engine is called and no telemetry is recorded.  The
\* load runs once: when it has ended, ready or failed, its outcome and the
\* store it left never change again, and only a loaded store is queried.
C11_LoadGatesQueries ==
    /\ [](loadState = "ready" => snapshot.version = "1" /\ index = snapshot)
    /\ [](loadState = "failed" => snapshot.version # "1" /\ index = Absent)
    /\ [](loadState # "ready" => Untouched)
    /\ [][loadState # "init" => loadState' = loadState /\ index' = index]_vars

\* a snapshot of another schema version has made the load fail
C11_Witness ==
    /\ loadState = "failed"
    /\ snapshot.version = "2"
    /\ Untouched

\* what search returns for the parameters of request r when it is the only
\* call made on the store
Alone(r) ==
    search(requests[r].params.q, requests[r].params.project, OVERFETCH).list

Served(r) == requests[r].response.status = 200

\* the response of request r holds what search returns alone
SameAsAlone(r, alone) ==
    /\ requests[r].response.results
         = slice(alone, querySchema(requests[r].params).data.limit)
    /\ requests[r].response.total = Len(alone)

UnknownProject(r) ==
    /\ requests[r].params.project # NoProject
    /\ ~getProject(requests[r].params.project)

\* the project parameter of request r is given and is a project of the store
KnownProject(r) ==
    /\ requests[r].params.project # NoProject
    /\ getProject(requests[r].params.project)

Valid(r) == querySchema(requests[r].params).success

NotFound(r) ==
    /\ requests[r].response.status = 404
    /\ requests[r].response.results = <<>>
    /\ requests[r].calls = <<"getProject">>

EmptyOk(r) ==
    /\ requests[r].response.status = 200
    /\ requests[r].response.results = <<>>

\* one search_performed event per served request and none for any other
EventsOnlyForServed ==
    Len(searchEvents.buf) = Cardinality({r \in Slots : Served(r)})

-----------------------------------------------------------------------------
(* A store with more matching documents than the route asks search for     *)

\* orders the decimal strings of the numbers below 1000 as their code units do
decimalKey(i) ==
    IF i < 10 THEN i * 1000 + 1 ELSE IF i < 100 THEN i * 100 + 2 ELSE i * 10 + 3

HugeDocs(n) == Array([i \in 1..n |-> Doc(P_pb, i - 1, BigTitle(i))])

\* the ids of HugeDocs(n), sorted as the merge sorts a posting list
HugeIds(n) ==
    sortByPlace(Array([i \in 1..n |-> DocId(P_pb, i - 1)]),
                Array([i \in 1..n |->
                         Cardinality({j \in 1..n :
                                         decimalKey(j - 1) < decimalKey(i - 1)}) + 1]))

\* n documents of project pb, all holding the body term kernel
HugeSnapshot(n) ==
    [version |-> "1",
     projects |-> <<[id |-> P_pa], [id |-> P_pb]>>,
     documents |-> HugeDocs(n),
     terms |-> <<[term |-> W_kernel, docs |-> HugeIds(n)]>>,
     titleterms |-> <<>>,
     alltitles |-> <<>>]

\* one search on the huge store, the other requests are rejected
HugeRequests ==
    [r \in Slots |->
        IF r = 1 THEN Request(W_kernel, NoProject, NoLimit)
        ELSE Request(W_kernel, NoProject, 0)]

OverfetchInit ==
    \/ \E file \in {FullSnapshot, BigSnapshot} :
          \E reqs \in [Slots -> ServeRequests] : ServeStart(file, reqs)
    \/ ServeStart(HugeSnapshot(OVERFETCH + 1), HugeRequests)

OverfetchSpec == OverfetchInit /\ [][ServeNext]_vars

\* the documents that match the query of request r, before any limit
Matching(r) ==
    buildResults(scoresOf(tokeniseWithRaw(requests[r].params.q),
                          requests[r].params.project))

\* C14: in every 200 response meta.count is the number of results returned
\* and at most the limit asked for (1..50, 20 when absent), and meta.total is
\* the number of documents that match the query before the limit is
\* applied, however many match.
C14_CountAndTotal ==
    \A r \in Slots :
        Served(r) =>
           /\ requests[r].response.count = Len(requests[r].response.results)
           /\ requests[r].response.count <= querySchema(requests[r].params).data.limit
           /\ querySchema(requests[r].params).data.limit \in LIMIT_MIN..LIMIT_MAX
           /\ requests[r].response.total = Len(Matching(r))

-----------------------------------------------------------------------------
(* search over a store and over the same store loaded with the ids of its  *)
(* posting lists in another order                                          *)

\* stores in which documents pa:0 and pb:0 (both titled alpha) share the
\* posting lists of kernel and quantum
PermSnapshots ==
    {[version |-> "1",
      projects |-> <<[id |-> P_pa], [id |-> P_pb]>>,
      documents |-> SmallDocs,
      terms |-> <<[term |-> W_kernel,
                   docs |-> <<DocId(P_pa, 0), DocId(P_pa, 1), DocId(P_pb, 0)>>]>>,
      titleterms |-> <<[term |-> W_quantum, docs |-> <<DocId(P_pa, 0), DocId(P_pb, 0)>>]>>,
      alltitles |-> hs] : hs \in {<<>>, Headings}}

PermQueries ==
    {W_kernel, W_quantum, W_method,
     <<"Q","u","a","n","t","u","m"," ","k","e","r","n","e","l">>}

\* the inverted indices that hold the entries with the ids of every list in
\* some order
Rearranged(entries) ==
    {[i \in DOMAIN entries |-> [term |-> entries[i].term, docs |-> f[i]]] :
        f \in {f \in [DOMAIN entries ->
                        UNION {Orders(Range(entries[i].docs)) : i \in DOMAIN entries}] :
                  \A i \in DOMAIN entries : f[i] \in Orders(Range(entries[i].docs))}}

PermInit ==
    /\ index \in PermSnapshots
    /\ query \in PermQueries
    /\ optProject \in Projects
    /\ optLimit \in Limits
    /\ called = FALSE
    /\ result = <<>>
    /\ accessed = {}
    /\ raised = FALSE
    /\ earlier = [made |-> FALSE, list |-> <<>>]
    /\ fs = Idle /\ listing = Idle /\ snapshot = Idle /\ exitStatus = Idle /\ log = Idle
    /\ dataSnapshot = Idle /\ dataExitStatus = Idle /\ dataLog = Idle
    /\ loadState = Idle /\ requests = Idle /\ searchEvents = Idle
    /\ ring = Idle /\ hook = Idle

\* the process starts again on a snapshot that differs in the order of the
\* ids inside the posting lists; the list the call returned is kept aside
Reload ==
    /\ called = TRUE
    /\ earlier.made = FALSE
    /\ \E t \in Rearranged(index.terms) : \E tt \in Rearranged(index.titleterms) :
          /\ <<t, tt>> # <<index.terms, index.titleterms>>
          /\ index' = [index EXCEPT !.terms = t, !.titleterms = tt]
    /\ earlier' = [made |-> TRUE, list |-> result]
    /\ called' = FALSE
    /\ result' = <<>>
    /\ accessed' = {}
    /\ raised' = FALSE
    /\ UNCHANGED <<query, optProject, optLimit, mergeVars, serverVars, ring, hook>>

PermNext == Search \/ Reload

PermSpec == PermInit /\ [][PermNext]_vars

\* C26: the call on the store with rearranged posting lists returns the list
\* the call on the first store returned: the same documents with the same
\* scores in the same order.
C26_PostingOrderIrrelevant ==
    (called = TRUE /\ earlier.made) => result = earlier.list

-----------------------------------------------------------------------------
(* telemetry: a CircularBuffer of capacity MAX_EVENTS filled past its      *)
(* capacity.  The items pushed are numbered 1, 2, 3, ... in push order.    *)

MaxPushes == 2003             \* pushes of a run: the buffer wraps twice

RingInit ==
    /\ ring = [buffer |-> CircularBuffer, pushes |-> 0]
    /\ index = Idle /\ query = Idle /\ optProject = Idle /\ optLimit = Idle
    /\ called = Idle /\ result = Idle /\ accessed = Idle /\ raised = Idle
    /\ fs = Idle /\ listing = Idle /\ snapshot = Idle /\ exitStatus = Idle /\ log = Idle
    /\ dataSnapshot = Idle /\ dataExitStatus = Idle /\ dataLog = Idle
    /\ loadState = Idle /\ requests = Idle /\ searchEvents = Idle
    /\ earlier = Idle /\ hook = Idle

\* one call of push, with the next item
RingPush ==
    /\ ring.pushes < MaxPushes
    /\ ring' = [buffer |-> push(ring.buffer, ring.pushes + 1), pushes |-> ring.pushes + 1]
    /\ UNCHANGED <<searchVars, mergeVars, serverVars, earlier, hook>>

RingNext == RingPush

RingSpec == RingInit /\ [][RingNext]_vars

\* the last k of the n items pushed, oldest first
LastPushed(n, k) == [i \in 1..k |-> n - k + i]

\* size is min(pushes, capacity) and toArray the last so many items pushed,
\* oldest first
HoldsLastPushed ==
    /\ size(ring.buffer) = Min(ring.pushes, MAX_EVENTS)
    /\ toArray(ring.buffer) = LastPushed(ring.pushes, Min(ring.pushes, MAX_EVENTS))

\* a push on a full buffer drops the oldest item and nothing else
FullPushDropsOldest ==
    size(ring.buffer) = MAX_EVENTS =>
        toArray(ring.buffer)' = Tail(toArray(ring.buffer)) \o <<ring.pushes + 1>>

\* C27: after any number of pushes, size is min(pushes, capacity) and
\* toArray returns the last min(pushes, capacity) items pushed in push
\* order, oldest first; a push on a full buffer removes the oldest item only.
C27_RingKeepsLastPushed ==
    /\ []HoldsLastPushed
    /\ [][FullPushDropsOldest]_vars

\* the buffer has been filled and two more items have been pushed
C27_Witness ==
    /\ ring.pushes = MAX_EVENTS + 2
    /\ ring.buffer.head = 2
    /\ toArray(ring.buffer)[1] = 3
    /\ toArray(ring.buffer)[MAX_EVENTS] = MAX_EVENTS + 2


-----------------------------------------------------------------------------
(* useSearch: the debounced search hook of the search box.  hook holds the *)
(* hook's state after an effect run: the query it was rendered with, its   *)
(* three pieces of React state, the timers set and not yet fired, and the  *)
(* fetches started and not yet settled.  Time is counted in milliseconds.  *)
(* meta is <<>> for null and a one-element sequence otherwise.             *)

DEBOUNCE_MS == 300
HookStep == 100               \* milliseconds that pass in one step of the clock
MaxTicks == 8                 \* steps of the clock in a run
MaxRuns == 4                  \* changes of the query in a run

HookQueries == {<<>>, <<" ">>, <<"a">>, <<"a"," ">>, <<"a","b">>}
HookResults == {<<>>, << <<"p","a",":","0">> >>}

\* what a started fetch can settle with: an aborted one rejects with an
\* AbortError, one waiting for the response gets it (res.ok or not) or fails,
\* one waiting for res.json() gets the body (results may be missing) or fails
Outcomes(f) ==
    IF f.aborted
    THEN {[kind |-> "AbortError", present |-> FALSE, results |-> <<>>]}
    ELSE IF f.phase = "fetch"
    THEN {[kind |-> k, present |-> FALSE, results |-> <<>>] : k \in {"ok", "notOk", "TypeError"}}
    ELSE {[kind |-> "data", present |-> TRUE, results |-> r] : r \in HookResults}
         \cup {[kind |-> k, present |-> FALSE, results |-> <<>>] : k \in {"data", "SyntaxError"}}

\* the function the effect returns: clearTimeout(timer); controller.abort()
cleanup_NoAbort(h) ==
    [h EXCEPT !.timers = {t \in @ : t.run # h.run}]

cleanup(h) ==
    [h EXCEPT !.timers = {t \in @ : t.run # h.run},
              !.fetches = {IF f.run = h.run THEN [f EXCEPT !.aborted = TRUE] ELSE f : f \in @}]

\* the body of the effect, run with the query q at time h.now
effect(h, q) ==
    IF trim(q) = <<>>
    THEN [h EXCEPT !.results = <<>>, !.meta = <<>>, !.isLoading = FALSE]
    ELSE [h EXCEPT !.isLoading = TRUE,
                   !.timers = @ \cup {[run |-> h.run, q |-> trim(q), due |-> h.now + DEBOUNCE_MS]}]

\* the timer's callback up to its first await: the request is sent
fire(h, t) ==
    [h EXCEPT !.timers = @ \ {t},
              !.fetches = @ \cup {[run |-> t.run, q |-> t.q, limit |-> 10,
                                   phase |-> "fetch", aborted |-> FALSE]},
              !.issued = Append(@, [q |-> t.q, at |-> h.now, query |-> h.query,
                                    since |-> h.since])]

\* the rest of the callback, resumed when the awaited promise of f settles with o
settle(h, f, o) ==
    IF o.kind = "ok"
    THEN [h EXCEPT !.fetches = (@ \ {f}) \cup {[f EXCEPT !.phase = "json"]}]
    ELSE IF o.kind = "data"
    THEN [h EXCEPT !.fetches = @ \ {f},
                   !.results = IF o.present THEN o.results ELSE <<>>,
                   !.meta = << [query |-> f.q, count |-> Len(o.results)] >>,
                   !.lastSet = << [run |-> f.run, current |-> h.run] >>,
                   !.isLoading = FALSE]
    ELSE IF o.kind = "AbortError"
    THEN [h EXCEPT !.fetches = @ \ {f}, !.isLoading = FALSE]
    ELSE [h EXCEPT !.fetches = @ \ {f}, !.results = <<>>, !.isLoading = FALSE]

\* a rejected await resumes its callback before any other task runs
NoMicrotask == \A f \in hook.fetches : ~f.aborted

\* the component mounted with the empty query, its first effect run
HookInit ==
    /\ hook = [query |-> <<>>, run |-> 1, now |-> 0, since |-> 0,
               results |-> <<>>, meta |-> <<>>, isLoading |-> FALSE,
               timers |-> {}, fetches |-> {}, issued |-> <<>>, lastSet |-> <<>>]
    /\ index = Idle /\ query = Idle /\ optProject = Idle /\ optLimit = Idle
    /\ called = Idle /\ result = Idle /\ accessed = Idle /\ raised = Idle
    /\ fs = Idle /\ listing = Idle /\ snapshot = Idle /\ exitStatus = Idle /\ log = Idle
    /\ dataSnapshot = Idle /\ dataExitStatus = Idle /\ dataLog = Idle
    /\ loadState = Idle /\ requests = Idle /\ searchEvents = Idle
    /\ earlier = Idle /\ ring = Idle

\* the component is rendered with another query: the cleanup of the last
\* effect run, then the effect
SetQuery ==
    \E q \in HookQueries :
        /\ NoMicrotask
        /\ q # hook.query
        /\ hook.run < MaxRuns
        /\ hook' = effect([cleanup(hook) EXCEPT !.query = q, !.run = @ + 1,
                                                !.since = hook.now], q)
        /\ UNCHANGED <<searchVars, mergeVars, serverVars, earlier, ring>>

\* time passes
HookTick ==
    /\ NoMicrotask
    /\ hook.now < MaxTicks * HookStep
    /\ hook' = [hook EXCEPT !.now = @ + HookStep]
    /\ UNCHANGED <<searchVars, mergeVars, serverVars, earlier, ring>>

\* a timer that is due fires
TimerFires ==
    \E t \in hook.timers :
        /\ NoMicrotask
        /\ hook.now >= t.due
        /\ hook' = fire(hook, t)
        /\ UNCHANGED <<searchVars, mergeVars, serverVars, earlier, ring>>

\* the promise a callback awaits settles
FetchSettles ==
    \E f \in hook.fetches :
        \E o \in Outcomes(f) :
            /\ f.aborted \/ NoMicrotask
            /\ hook' = settle(hook, f, o)
            /\ UNCHANGED <<searchVars, mergeVars, serverVars, earlier, ring>>

HookNext == SetQuery \/ HookTick \/ TimerFires \/ FetchSettles

HookSpec == HookInit /\ [][HookNext]_vars

\* the effect run of the query the component shows now still waits for its
\* timer or for its request
Outstanding ==
    \/ \E t \in hook.timers : t.run = hook.run
    \/ \E f \in hook.fetches : f.run = hook.run

\* every request was sent for the query shown at that time, which had then
\* been shown for the debounce time, and none for an empty query
IssuedAfterDebounce ==
    \A i \in DOMAIN hook.issued :
        /\ hook.issued[i].q = trim(hook.issued[i].query)
        /\ hook.issued[i].at - hook.issued[i].since >= DEBOUNCE_MS
        /\ hook.issued[i].q # <<>>

\* no timer of an earlier query is left and every request of one is aborted
EarlierCancelled ==
    /\ \A t \in hook.timers : t.run = hook.run
    /\ \A f \in hook.fetches : f.run # hook.run => f.aborted

\* the last response that set results and meta was for the query shown then
SetFromCurrent ==
    \A i \in DOMAIN hook.lastSet : hook.lastSet[i].run = hook.lastSet[i].current

\* with an empty query nothing is shown and nothing is outstanding
EmptyShowsNothing ==
    trim(hook.query) = <<>> =>
        hook.results = <<>> /\ hook.meta = <<>> /\ ~Outstanding

\* C28: a request is sent only for a query that stayed unchanged for 300 ms;
\* a change of the query cancels the pending timer and aborts the request in
\* flight, so results and meta are never set from the response to a query
\* that is no longer shown; an empty query clears results and meta at once
\* and sends no request.
C28_DebouncedAndNeverStale ==
    /\ IssuedAfterDebounce
    /\ EarlierCancelled
    /\ SetFromCurrent
    /\ EmptyShowsNothing

\* the request for "a" was aborted in flight by the change to "ab", whose own
\* request was sent and answered
C28_Witness ==
    /\ Len(hook.issued) = 2
    /\ hook.issued[1].q = <<"a">>
    /\ hook.issued[2].q = <<"a","b">>
    /\ hook.issued[2].since < hook.issued[1].at + DEBOUNCE_MS
    /\ hook.lastSet = << [run |-> 3, current |-> 3] >>
    /\ hook.meta = << [query |-> <<"a","b">>, count |-> 1] >>
    /\ hook.fetches = {}

\* C29: while the query is not empty and its request has not completed (its
\* timer is pending or its fetch in flight), isLoading is true.
C29_LoadingWhileOutstanding ==
    (trim(hook.query) # <<>> /\ Outstanding) => hook.isLoading = TRUE

=============================================================================
